---------------------------- MODULE Spec2Model ----------------------------
(***************************************************************************)
(* Model of the volumetric aggregation layer of seismiqb:                  *)
(*   - Accumulator3D and its max / mean / geometric-mean subclasses        *)
(*     (src/seismiqb/src/utils/classes.py),                                *)
(*   - the thread-safe lru_cache decorator (src/seismiqb/utils/cache.py),  *)
(*   - SeismicGeometry: load_crop on a SEG-Y cube and on its HDF5          *)
(*     conversion (src/seismiqb/src/geometry.py),                          *)
(*   - Quantizer and ConversionMixin.convert                               *)
(*     (src/seismiqb/new_geometry/conversion_mixin.py).                    *)
(*                                                                         *)
(* Numbers.  The storage dtype is the default np.float32.  A stored value  *)
(* is a record [num, den]: before aggregation den = 1 and num is the       *)
(* integer-valued float held by the array, every sum and product being     *)
(* rounded to the 24-bit significand of float32 (F32Round).  After the     *)
(* finalization pass of the mean policy the value is the quotient num/den  *)
(* (reduced), after that of the geometric-mean policy it is num^(1/den).   *)
(* The counts placeholder is np.int8 and wraps modulo 2^8 (Wrap8).         *)
(***************************************************************************)
EXTENDS Integers, Sequences, FiniteSets, TLC

(***************************************************************************)
(* Bounds of the model.                                                    *)
(***************************************************************************)
\* number of axes of the modelled arrays (the code zips over the axes)
NDims == 2
\* update calls per behaviour
MaxUpdates == 2
\* finalization passes counted per behaviour
MaxFinalize == 2
\* update calls per behaviour when every kind of location is tried
MaxCalls == 2
\* update calls per behaviour when many contributions overlap
MaxOverlap == 130
\* update calls per behaviour when their orders are compared
MaxOrder == 3
\* maxsize of the lru_cache
MaxSize == 1
\* calls of the cached method per behaviour
MaxCachedCalls == 2
\* resets, index changes and rewrites of the traces per behaviour
MaxEnv == 1
\* creations of a file at one path per behaviour
MaxCreations == 3

Axes == 1..NDims

(***************************************************************************)
(* Program constants.                                                      *)
(***************************************************************************)
\* 2^24: integers of larger magnitude are rounded by float32
F32Precision == 16777216
\* np.finfo(np.float32).min, the least value of the modelled value domain
F32Min == -1073741824
\* np.int8 holds 2^8 values
I8Modulus == 256

Max2(a, b) == IF a >= b THEN a ELSE b
Min2(a, b) == IF a <= b THEN a ELSE b
Abs(x) == IF x < 0 THEN -x ELSE x

RECURSIVE Gcd(_, _)
Gcd(a, b) == IF b = 0 THEN a ELSE Gcd(b, a % b)

(***************************************************************************)
(* float32 and int8 arithmetic.                                            *)
(***************************************************************************)
\* the spacing of float32 numbers around the integer magnitude a
RECURSIVE F32Quantum(_)
F32Quantum(a) == IF a < F32Precision THEN 1 ELSE 2 * F32Quantum(a \div 2)

\* round-to-nearest-even of the integer x to a float32
F32Round(x) ==
    LET a    == Abs(x)
        q    == F32Quantum(a)
        r    == a % q
        base == a - r
        up   == IF 2 * r > q THEN TRUE
                ELSE IF 2 * r < q THEN FALSE
                ELSE r # 0 /\ (base \div q) % 2 = 1
        m    == IF up THEN base + q ELSE base
    IN  IF x < 0 THEN -m ELSE m

\* int8 wrap-around of counts += 1
Wrap8(x) == ((x + (I8Modulus \div 2)) % I8Modulus) - (I8Modulus \div 2)

Val(n) == [num |-> n, den |-> 1]

\* data / counts, as a reduced fraction with a positive denominator
Quotient(n, c) ==
    LET g == Gcd(Abs(n), Abs(c))
        s == IF c < 0 THEN -1 ELSE 1
    IN  IF n = 0 THEN [num |-> 0, den |-> 1]
        ELSE [num |-> s * (n \div g), den |-> s * (c \div g)]

\* data ** (1 / counts): the counts-th root, kept symbolic
Root(n, c) == [num |-> n, den |-> c]

(***************************************************************************)
(* Python slices.  A slice is [start, stop, step]; step is <<>> for an     *)
(* absent step (None) and <<k>> for the integer k.                         *)
(***************************************************************************)
Slice(a, b) == [start |-> a, stop |-> b, step |-> <<>>]
SliceStep(a, b, k) == [start |-> a, stop |-> b, step |-> <<k>>]

\* `slc.step and slc.step != 1`
BadStep(slc) == slc.step # <<>> /\ slc.step[1] # 0 /\ slc.step[1] # 1

\* slice.indices(n) for a unit step: a negative bound counts from the end
PyNorm(i, n) == IF i < 0 THEN Max2(i + n, 0) ELSE Min2(i, n)
SliceLo(slc, n) == PyNorm(slc.start, n)
SliceHi(slc, n) == PyNorm(slc.stop, n)
SliceLen(slc, n) == Max2(SliceHi(slc, n) - SliceLo(slc, n), 0)

(***************************************************************************)
(* State.                                                                  *)
(***************************************************************************)
VARIABLES
    \* Accumulator3D: constructor arguments
    policy,         \* "max" | "mean" | "gmean": the subclass
    backing,        \* self.type: "numpy" | "hdf5"
    origin,         \* self.origin
    shape,          \* self.shape
    fill_value,     \* MaxAccumulator3D.fill_value
    \* Accumulator3D: mutable fields
    data,           \* the primary placeholder
    counts,         \* the counts placeholder (mean, gmean)
    placeholders,   \* names of the placeholders that exist
    aggregated,     \* self.aggregated
    file,           \* mode of the h5py handle: "none" | "w-" | "r" | "closed"
    on_disk,        \* whether a file exists at self.path
    \* the caller
    args,           \* arguments of the last update call (kept if recording)
    last_op,        \* the last operation that returned or raised
    outcome,        \* "ok", or the exception it raised
    ret,            \* the value the last operation returned
    \* history
    limit,          \* update calls the behaviour may make
    nupdates,       \* update calls made
    n_finalize,     \* completed runs of the policy's finalization pass
    cover,          \* per point: successful updates whose location covers it
    total,          \* per point: exact sum of the crop elements given to it
    updated,        \* some update call has succeeded
    inbounds,       \* every successful update lay inside the bounds
    cleared,        \* some clear call has succeeded
    recording,      \* what the behaviour keeps: "none" | "args" | "log"
    log,            \* the successful update calls in order (kept if recording)
    \* lru_cache around SeismicGeometry.load_slide_segy
    maxsize,        \* self.maxsize
    apply_by_default, \* self.apply_by_default
    env_disable,    \* SEISMIQB_DISABLE_CACHE is set to a non-empty string
    climit,         \* wrapper calls the behaviour may make
    cache,          \* self.cache: per instance, the entries, oldest first
    is_full,        \* self.is_full: per instance
    stats,          \* self.stats: per instance, [hit, miss]
    index,          \* the designated attribute `index` of each instance
    source,         \* version of the traces each instance reads
    pc,             \* per thread: where it is in the wrapper
    frame,          \* per thread: the locals of its call
    cret,           \* per thread: what its last call returned or raised
    rpc,            \* progress of a running reset
    ncalls,         \* per instance: runs of the wrapped function
    ncached,        \* calls of the wrapper made
    nenv,           \* resets, index changes and rewrites made
    lock,           \* self.lock: the thread that holds it, or "free"
    used,           \* ticks of the lock, and per instance when each key was
                    \* last hit or inserted (kept if recording)
    \* SeismicGeometry of one cube
    dataframe,      \* self.dataframe['trace_index']: pair of header values -> trace
    file_hdf5,      \* self.file_hdf5: the datasets cube, cube_x and cube_h
    loaded,         \* the last load_crop call and what it returned or raised
    \* Quantizer and ConversionMixin.convert
    quantizer,      \* the fields of the Quantizer, <<>> before it is created
    held,           \* the array the caller passed to the last call, as it is now
    out,            \* the array the last call returned
    trail,          \* the quantize and dequantize calls in order
    converted,      \* the file at the path of convert, <<>> if there is none
    made            \* the last conversion and how it ended

acc_vars == <<policy, backing, origin, shape, fill_value, data, counts,
              placeholders, aggregated, file, on_disk>>
call_vars == <<args, last_op, outcome, ret>>
hist_vars == <<limit, nupdates, n_finalize, cover, total, updated, inbounds, cleared,
              recording, log>>
cache_opts == <<maxsize, apply_by_default, climit>>
cache_vars == <<cache_opts, env_disable, cache, is_full, stats, index, source, pc,
                frame, cret, rpc, ncalls, ncached, nenv, lock, used>>
geo_vars == <<dataframe, file_hdf5, loaded>>
conv_vars == <<quantizer, held, out, trail, converted, made>>
vars == <<acc_vars, call_vars, hist_vars, cache_vars, geo_vars, conv_vars>>

(***************************************************************************)
(* Arrays.  A point is a tuple of indices, one per axis.                   *)
(***************************************************************************)
RECURSIVE MaxExtent(_, _)
MaxExtent(shp, a) == IF a = 0 THEN 0 ELSE Max2(shp[a], MaxExtent(shp, a - 1))

PointsOf(shp) ==
    {p \in [Axes -> 0..(MaxExtent(shp, NDims) - 1)] : \A a \in Axes : p[a] < shp[a]}

\* np.full(shape, fill_value) / create_dataset(..., fillvalue=fill_value)
create_placeholder(shp, fill) == [p \in PointsOf(shp) |-> fill]

\* row-major position of idx in an array of shape shp
RECURSIVE FlatIndex(_, _, _)
FlatIndex(idx, shp, a) ==
    IF a = 0 THEN 0 ELSE FlatIndex(idx, shp, a - 1) * shp[a] + idx[a]

\* A crop is [shape, base, slope]: the array base + slope * arange(size)
\* reshaped to shape.
CropAt(crop, idx) == crop.base + crop.slope * FlatIndex(idx, crop.shape, NDims)

NoArgs == [crop |-> [shape |-> <<>>, base |-> 0, slope |-> 0], location |-> <<>>]
NoValue == [has |-> FALSE, value |-> <<>>]
Returned(v) == [has |-> TRUE, value |-> v]

(***************************************************************************)
(* Accumulator3D.update and the subclasses' _update.                       *)
(***************************************************************************)
\* the first loop of update: the step and the crop shape, axis by axis
CheckFails(crop, location) ==
    \E a \in Axes :
        \/ BadStep(location[a])
        \/ crop.shape[a] < location[a].stop - location[a].start

\* `loc`: the location shifted by the origin and cut to the shape
LocOf(location, org, shp) ==
    [a \in Axes |-> Slice(Max2(0, location[a].start - org[a]),
                          Min2(shp[a], location[a].stop - org[a]))]

\* `loc_crop`: the part of the crop that goes there
LocCropOf(location, org, shp) ==
    [a \in Axes |-> Slice(Max2(0, org[a] - location[a].start),
                          Min2(shp[a] + org[a] - location[a].start,
                               location[a].stop - location[a].start))]

\* whether data[loc] selects the point p
Selected(loc, shp, p) ==
    \A a \in Axes : SliceLo(loc[a], shp[a]) <= p[a] /\ p[a] < SliceHi(loc[a], shp[a])

\* numpy broadcasting of crop[loc_crop] (extents c) against data[loc]
\* (extents d), the result written back in place: every axis needs c = d
\* or c = 1
Broadcasts(loc, loc_crop, crop, shp) ==
    \A a \in Axes :
        LET d == SliceLen(loc[a], shp[a])
            c == SliceLen(loc_crop[a], crop.shape[a])
        IN  c = d \/ c = 1

\* the element of crop[loc_crop] that meets the point p of data[loc]
CropElement(crop, loc, loc_crop, shp, p) ==
    CropAt(crop,
           [a \in Axes |->
               SliceLo(loc_crop[a], crop.shape[a])
                 + (IF SliceLen(loc_crop[a], crop.shape[a]) = 1
                    THEN 0 ELSE p[a] - SliceLo(loc[a], shp[a]))])

\* MaxAccumulator3D._update: data[location] = np.maximum(crop, data[location])
\* np.minimum in place of np.maximum
MinUpdate(dat, v) == Val(Min2(v, dat.num))

MaxUpdate(dat, v) == Val(Max2(v, dat.num))

\* MeanAccumulator3D._update: data[location] += crop
\* data[location] = crop in place of data[location] += crop
MeanOverwrite(dat, v) == Val(v)

MeanUpdate(dat, v) == Val(F32Round(dat.num + v))

\* GMeanAccumulator3D._update: data[location] *= crop
GMeanUpdate(dat, v) == Val(F32Round(dat.num * v))

\* counts[location] += 1
CountsUpdate(c) == Wrap8(c + 1)

PolicyUpdate(pol, dat, v) ==
    CASE pol = "max"   -> MaxUpdate(dat, v)
      [] pol = "mean"  -> MeanUpdate(dat, v)
      [] pol = "gmean" -> GMeanUpdate(dat, v)

\* self._update(crop[loc_crop], loc), the broadcast included
ApplyUpdate(pol, shp, dat, cnt, crop, loc, loc_crop) ==
    IF ~Broadcasts(loc, loc_crop, crop, shp)
    THEN [outcome |-> "ValueError", data |-> dat, counts |-> cnt]
    ELSE [outcome |-> "ok",
          data    |-> [p \in DOMAIN dat |->
                         IF Selected(loc, shp, p)
                         THEN PolicyUpdate(pol, dat[p],
                                  CropElement(crop, loc, loc_crop, shp, p))
                         ELSE dat[p]],
          counts  |-> [p \in DOMAIN cnt |->
                         IF pol # "max" /\ Selected(loc, shp, p)
                         THEN CountsUpdate(cnt[p]) ELSE cnt[p]]]

\* The body of update after the `aggregated` test, as a function of the
\* placeholders: [outcome, data, counts].
UpdateEffect(pol, org, shp, dat, cnt, crop, location) ==
    IF CheckFails(crop, location)
    THEN [outcome |-> "ValueError", data |-> dat, counts |-> cnt]
    ELSE ApplyUpdate(pol, shp, dat, cnt, crop,
                     LocOf(location, org, shp), LocCropOf(location, org, shp))

\* update without its test of the flag
UpdateNeverRaises(agg) == FALSE

\* `if self.aggregated: raise RuntimeError` at the head of update
UpdateRaises(agg) == agg

\* update as a function of the object's state: [outcome, data, counts]
UpdateResult(agg, fl, pol, org, shp, dat, cnt, crop, location) ==
    IF UpdateRaises(agg)
    THEN [outcome |-> "RuntimeError", data |-> dat, counts |-> cnt]
    ELSE IF ~CheckFails(crop, location) /\ fl = "closed"
    \* the placeholders of a closed h5py file cannot be read
    THEN [outcome |-> "H5Error", data |-> dat, counts |-> cnt]
    ELSE UpdateEffect(pol, org, shp, dat, cnt, crop, location)

\* a unit-step location inside [origin, origin + shape) on every axis
InBounds(location, org, shp) ==
    \A a \in Axes :
        /\ location[a].step \in {<<>>, <<1>>}
        /\ org[a] <= location[a].start
        /\ location[a].start <= location[a].stop
        /\ location[a].stop <= org[a] + shp[a]

\* the points of the accumulator that a location covers, in the global
\* coordinates the caller uses
Covers(location, org, p) ==
    \A a \in Axes :
        location[a].start <= org[a] + p[a] /\ org[a] + p[a] < location[a].stop

\* the crop element with the global coordinate of p
Contribution(crop, location, org, p) ==
    CropAt(crop, [a \in Axes |-> org[a] + p[a] - location[a].start])

(***************************************************************************)
(* The subclasses' _aggregate.                                             *)
(***************************************************************************)
\* counts[counts == 0] = 1
CountsOrOne(c) == IF c = 0 THEN 1 ELSE c

\* MaxAccumulator3D._aggregate: pass
MaxAggregate(dat, c) == dat

\* MeanAccumulator3D._aggregate: data /= counts
MeanAggregate(dat, c) == Quotient(dat.num, CountsOrOne(c))

\* GMeanAccumulator3D._aggregate: data **= counts ** -1
GMeanAggregate(dat, c) == Root(dat.num, CountsOrOne(c))

PolicyAggregate(pol, dat, c) ==
    CASE pol = "max"   -> MaxAggregate(dat, c)
      [] pol = "mean"  -> MeanAggregate(dat, c)
      [] pol = "gmean" -> GMeanAggregate(dat, c)

\* the finalization pass over the whole array (the hdf5 branch walks the
\* same points slab by slab)
AggregateEffect(pol, dat, cnt) ==
    [p \in DOMAIN dat |-> PolicyAggregate(pol, dat[p], cnt[p])]

\* remove_placeholder('counts') at the end of the mean and gmean passes
remove_placeholder(names, pol) == IF pol = "max" THEN names ELSE names \ {"counts"}

(***************************************************************************)
(* lru_cache.  A store is the OrderedDict of one instance: a sequence of   *)
(* [key, value] entries, least recently used first.                        *)
(***************************************************************************)
Threads == {"t1", "t2"}
Instances == {"a", "b"}
\* one slide more than the cache holds
Locs == 0..MaxSize
\* values of the attribute `index`: lists of header numbers
IndexValues == {<<1, 2>>, <<2, 1>>}

\* sorted(...) of a sequence of numbers
RECURSIVE Sorted(_)
Sorted(sq) ==
    IF sq = <<>> THEN <<>>
    ELSE LET i == CHOOSE j \in 1..Len(sq) : \A k \in 1..Len(sq) : sq[j] <= sq[k]
         IN  <<sq[i]>> \o Sorted([k \in 1..(Len(sq) - 1) |-> IF k < i THEN sq[k] ELSE sq[k + 1]])

\* stable_hash of a value that is not a string: the digest of its sorted
\* characters, which is one-to-one on the sorted sequence
stable_hash(v) == Sorted(v)

\* Arguments that are not slide numbers: the set {0}, the list [0] and the
\* list [{0}].  A set has no hash; a list has none either.
Arg == [set |-> 0 - 1, list |-> 0 - 2, list_of_set |-> 0 - 3]
OddArgs == {Arg.set, Arg.list, Arg.list_of_set}

\* flatten_nested of one argument: the items of a list in place of the list,
\* anything that is not a tuple, list or dict as it is
flatten_nested(arg) ==
    CASE arg = Arg.list -> <<0>>
      [] arg = Arg.list_of_set -> <<Arg.set>>
      [] OTHER -> <<arg>>

\* make_key for the call load_slide_segy(loc) on an instance whose index is idx
make_key(loc, idx) == flatten_nested(loc) \o <<stable_hash(idx)>>

\* a key every item of which has a hash
AlwaysHashable(key) == TRUE

\* hash(key) of the tuple that make_key returns does not raise TypeError
Hashable(key) == \A i \in 1..(Len(key) - 1) : key[i] # Arg.set

\* the slide that load_slide_segy reads
load_slide_segy(inst, loc, idx, ver) == <<inst, loc, idx, ver>>

\* the sentinel of a failed lookup
Singleton == [has |-> FALSE, value |-> <<>>]

\* a lookup that never finds the key
CacheGetNothing(store, key) == Singleton

\* self.cache[instance_hash].get(key, self.default)
CacheGet(store, key) ==
    IF \E i \in 1..Len(store) : store[i].key = key
    THEN Returned(store[CHOOSE i \in 1..Len(store) : store[i].key = key].value)
    ELSE Singleton

IsEntry(e, key) == e.key = key

\* a hit that leaves the entry where it is
KeepInPlace(store, key, value) == store

\* del store[key]; store[key] = value: the entry moves to the end
MoveToEnd(store, key, value) ==
    Append(SelectSeq(store, LAMBDA e : ~IsEntry(e, key)), [key |-> key, value |-> value])

NoFrame ==
    [inst |-> "", loc |-> 0, idx |-> <<>>, key |-> <<>>, result |-> NoValue,
     had |-> NoValue,
     hit0 |-> 0, miss0 |-> 0, calls0 |-> 0, solo |-> FALSE]
NoReturn == [outcome |-> "none", value |-> NoValue]
NoReset == [step |-> 0, target |-> {}]

\* lru_cache.__init__ (reset with no instance) and unloaded instances
CacheConstruct(size, by_default, lim) ==
    /\ maxsize = size
    /\ apply_by_default = by_default
    /\ env_disable = FALSE
    /\ climit = lim
    /\ cache = [i \in Instances |-> <<>>]
    /\ is_full = [i \in Instances |-> FALSE]
    /\ stats = [i \in Instances |-> [hit |-> 0, miss |-> 0]]
    /\ index = [i \in Instances |-> <<1, 2>>]
    /\ source = [i \in Instances |-> 0]
    /\ pc = [t \in Threads |-> "idle"]
    /\ frame = [t \in Threads |-> NoFrame]
    /\ cret = [t \in Threads |-> NoReturn]
    /\ rpc = NoReset
    /\ ncalls = [i \in Instances |-> 0]
    /\ ncached = 0
    /\ nenv = 0
    /\ dataframe = <<>>
    /\ file_hdf5 = <<>>
    /\ loaded = [op |-> "none"]
    /\ quantizer = <<>>
    /\ held = <<>>
    /\ out = <<>>
    /\ trail = <<>>
    /\ converted = <<>>
    /\ made = [op |-> "none", n |-> 0]
    /\ lock = "free"
    /\ used = [clock |-> 0, at |-> [i \in Instances |-> {}]]

(***************************************************************************)
(* Construction.                                                           *)
(***************************************************************************)
Policies == {"max", "mean", "gmean"}
Backings == {"numpy", "hdf5"}

\* shape and origin passed to the constructor
AccShape == [a \in Axes |-> IF a <= 2 THEN 2 ELSE 1]
AccOrigin == [a \in Axes |-> 2]

\* fill_value=None selects the least value of the dtype
NoFill == <<>>
FillValues == {NoFill, <<5>>}

\* the fill value of `data`, per subclass __init__
DataFill(pol, fill) ==
    CASE pol = "max"   -> IF fill # NoFill THEN Val(fill[1]) ELSE Val(F32Min)
      [] pol = "mean"  -> Val(0)
      [] pol = "gmean" -> Val(1)

\* Accumulator3D.__init__ followed by the subclass's create_placeholder calls
AccConstruct(pol, bck, org, shp, fill, keep, lim) ==
    /\ policy = pol
    /\ backing = bck
    /\ origin = org
    /\ shape = shp
    /\ fill_value = fill
    /\ data = create_placeholder(shp, DataFill(pol, fill))
    /\ counts = create_placeholder(shp, 0)
    /\ placeholders = IF pol = "max" THEN {"data"} ELSE {"data", "counts"}
    /\ aggregated = FALSE
    /\ file = IF bck = "hdf5" THEN "w-" ELSE "none"
    /\ on_disk = (bck = "hdf5")
    /\ args = NoArgs
    /\ last_op = "__init__"
    /\ outcome = "ok"
    /\ ret = NoValue
    /\ limit = lim
    /\ nupdates = 0
    /\ n_finalize = 0
    /\ cover = [p \in PointsOf(shp) |-> 0]
    /\ total = [p \in PointsOf(shp) |-> 0]
    /\ updated = FALSE
    /\ inbounds = TRUE
    /\ cleared = FALSE
    /\ recording = keep
    /\ log = <<>>

\* an accumulator next to a cache nobody calls
Construct(pol, bck, org, shp, fill, keep, lim) ==
    AccConstruct(pol, bck, org, shp, fill, keep, lim) /\ CacheConstruct(MaxSize, TRUE, 0)

(***************************************************************************)
(* The update calls the caller may make: locations around the bounds       *)
(* [origin, origin + shape) of each axis, with crops of fitting, larger    *)
(* and smaller shapes.                                                     *)
(***************************************************************************)
FullRange(a) == Slice(AccOrigin[a], AccOrigin[a] + AccShape[a])

\* valid unit-step ranges inside the bounds
PlainRanges(a) ==
    LET o == AccOrigin[a]
        n == AccShape[a]
    IN  {FullRange(a), Slice(o, o + 1), Slice(o + n - 1, o + n)}

\* ranges that leave the bounds, are empty or reversed, or carry a step
OtherRanges(a) ==
    LET o == AccOrigin[a]
        n == AccShape[a]
    IN  { Slice(o - 1, o + 1), Slice(o + n - 1, o + n + 1), Slice(o - 1, o + n + 1),
          Slice(o - 2, o - 1), Slice(o - 1, o),
          Slice(o + n, o + n + 1), Slice(o + n + 1, o + n + 2),
          Slice(o + 1, o + 1), Slice(o - 1, o - 1),
          Slice(o + 1, o), Slice(o, o - 1),
          SliceStep(o, o + n, 1), SliceStep(o, o + n, 0),
          SliceStep(o, o + n, 2), SliceStep(o, o + n, -1) }

RangeLen(r) == Max2(r.stop - r.start, 0)

\* crop extents tried along an axis with the range r
CropLens(r, a) == {Max2(RangeLen(r) - 1, 0), RangeLen(r), AccShape[a], AccShape[a] + 1}

\* the crops np.full(shape, 1) and 3 + np.arange(size).reshape(shape)
CropKinds == {<<1, 0>>, <<3, 1>>}

\* locations inside the bounds on every axis, with a crop of the same shape
PlainInputs ==
    { [crop     |-> [shape |-> [a \in Axes |-> RangeLen(l[a])], base |-> c[1], slope |-> c[2]],
       location |-> l] :
        l \in {m \in [Axes -> UNION {PlainRanges(a) : a \in Axes}] :
                  \A a \in Axes : m[a] \in PlainRanges(a)},
        c \in CropKinds }

\* one axis b takes the range r and the crop extent n, the rest are full
InputAlong(b, r, n) ==
    [crop     |-> [shape |-> [a \in Axes |-> IF a = b THEN n ELSE AccShape[a]],
                   base |-> 3, slope |-> 1],
     location |-> [a \in Axes |-> IF a = b THEN r ELSE FullRange(a)]]

OtherInputsAlong(b) ==
    UNION { { InputAlong(b, r, n) : n \in CropLens(r, b) } :
            r \in OtherRanges(b) \cup PlainRanges(b) }

\* every kind of call, for the specifications that look at single calls
CallInputs == PlainInputs \cup UNION {OtherInputsAlong(b) : b \in Axes}

\* a location that overhangs the bounds, one wholly outside them, an empty
\* one, a stepped one and a crop that is too small, along the first axis
FewRanges ==
    LET o == AccOrigin[1]
        n == AccShape[1]
    IN  { Slice(o - 1, o + 1), Slice(o - 2, o - 1), Slice(o + 1, o + 1),
          SliceStep(o, o + n, 2), Slice(o - 1, o + n + 1) }

\* the calls of the specifications that look at whole lifecycles
UpdateInputs == PlainInputs \cup { InputAlong(1, r, RangeLen(r) \div 2 + 1) : r \in FewRanges }

(***************************************************************************)
(* Operations of the accumulator.                                          *)
(***************************************************************************)
\* Accumulator3D.update(crop, location), to its return or its raise
update(crop, location) ==
    /\ nupdates < limit
    /\ nupdates' = nupdates + 1
    /\ args' = IF recording = "none" THEN args ELSE [crop |-> crop, location |-> location]
    /\ last_op' = "update"
    /\ ret' = NoValue
    /\ \E res \in {UpdateResult(aggregated, file, policy, origin, shape,
                                data, counts, crop, location)} :
           /\ outcome' = res.outcome
           /\ data' = res.data
           /\ counts' = res.counts
           /\ IF res.outcome = "ok"
              THEN /\ cover' = [p \in DOMAIN cover |->
                                  cover[p] + (IF Covers(location, origin, p) THEN 1 ELSE 0)]
                   /\ total' = [p \in DOMAIN total |->
                                  total[p] + (IF Covers(location, origin, p)
                                              THEN Contribution(crop, location, origin, p)
                                              ELSE 0)]
                   /\ updated' = TRUE
                   /\ inbounds' = (inbounds /\ InBounds(location, origin, shape))
                   /\ log' = IF recording = "log"
                             THEN Append(log, [crop |-> crop, location |-> location])
                             ELSE log
              ELSE UNCHANGED <<cover, total, updated, inbounds, log>>
    /\ UNCHANGED <<policy, backing, origin, shape, fill_value, placeholders,
                   aggregated, file, on_disk>>
    /\ UNCHANGED <<limit, n_finalize, cleared, recording>>
    /\ UNCHANGED <<cache_vars, geo_vars, conv_vars>>

\* `if self.aggregated: raise RuntimeError` at the head of aggregate
AggregateRaises(agg) == agg

\* The body of Accumulator3D.aggregate, called as `op` ("aggregate", or
\* "result" when the property triggers it).
AggregateBody(op) ==
    /\ last_op' = op
    /\ IF AggregateRaises(aggregated)
       THEN /\ outcome' = "RuntimeError"
            /\ ret' = NoValue
            /\ UNCHANGED <<data, counts, placeholders, aggregated, file, n_finalize>>
       ELSE IF file = "closed"
       \* an earlier aggregate closed the file and could not reopen it: the
       \* pass of max is empty and completes, the others cannot read `data`
       THEN /\ policy = "max" => n_finalize < MaxFinalize
            /\ outcome' = "H5Error"
            /\ ret' = NoValue
            /\ n_finalize' = IF policy = "max" THEN n_finalize + 1 ELSE n_finalize
            /\ UNCHANGED <<data, counts, placeholders, aggregated, file>>
       ELSE /\ data' = AggregateEffect(policy, data, counts)
            /\ counts' = IF policy = "max" THEN counts ELSE create_placeholder(shape, 0)
            /\ placeholders' = remove_placeholder(placeholders, policy)
            /\ n_finalize' = n_finalize + 1
            /\ IF backing = "hdf5" /\ ~on_disk
               \* h5py.File(self.path, 'r') after the file was removed
               THEN /\ file' = "closed"
                    /\ outcome' = "FileNotFoundError"
                    /\ ret' = NoValue
                    /\ UNCHANGED aggregated
               ELSE /\ file' = IF backing = "hdf5" THEN "r" ELSE file
                    /\ aggregated' = TRUE
                    /\ outcome' = "ok"
                    /\ ret' = Returned(data')
    /\ UNCHANGED <<policy, backing, origin, shape, fill_value, on_disk, args>>
    /\ UNCHANGED <<limit, nupdates, cover, total, updated, inbounds, cleared, recording, log>>
    /\ UNCHANGED <<cache_vars, geo_vars, conv_vars>>

\* Accumulator3D.aggregate
aggregate == AggregateBody("aggregate")

\* the property calling aggregate on every read
result_always_aggregates == AggregateBody("result")

\* Accumulator3D.result (a property read)
result ==
    IF ~aggregated
    THEN AggregateBody("result")
    ELSE /\ last_op' = "result"
         /\ outcome' = "ok"
         /\ ret' = Returned(data)
         /\ UNCHANGED <<acc_vars, args, hist_vars, cache_vars, geo_vars, conv_vars>>

\* Accumulator3D.clear
clear ==
    /\ last_op' = "clear"
    /\ ret' = NoValue
    /\ IF backing = "hdf5" /\ ~on_disk
       \* os.remove of a path that is gone
       THEN /\ outcome' = "FileNotFoundError"
            /\ UNCHANGED <<on_disk, cleared>>
       ELSE /\ outcome' = "ok"
            /\ on_disk' = FALSE
            /\ cleared' = TRUE
    /\ UNCHANGED <<policy, backing, origin, shape, fill_value, data, counts,
                   placeholders, aggregated, file, args>>
    /\ UNCHANGED <<limit, nupdates, n_finalize, cover, total, updated, inbounds,
                   recording, log>>
    /\ UNCHANGED <<cache_vars, geo_vars, conv_vars>>

(***************************************************************************)
(* Spec: one accumulator of any policy and backing, driven by any sequence *)
(* of update, aggregate, result and clear calls.                           *)
(***************************************************************************)
Init ==
    \E pol \in Policies, bck \in Backings, fill \in FillValues :
        /\ pol # "max" => fill = NoFill
        /\ Construct(pol, bck, AccOrigin, AccShape, fill, "none", MaxUpdates)

Next ==
    \/ \E inp \in UpdateInputs : update(inp.crop, inp.location)
    \/ aggregate
    \/ result
    \/ clear

Spec == Init /\ [][Next]_vars


-----------------------------------------------------------------------------
(* Properties of the accumulator life cycle, checked under Spec.          *)

\* C1: once the accumulator is aggregated, every later update (whatever its
\* arguments) and every later aggregate raises, and leaves the primary
\* placeholder and the aggregated flag as they were.
C1_AggregatedRejects ==
    [][(aggregated /\ last_op' \in {"update", "aggregate"})
          => /\ outcome' = "RuntimeError"
             /\ data' = data
             /\ aggregated']_vars

\* an update and an aggregate have both been refused on aggregated data
C1_Witness ==
    /\ aggregated
    /\ updated
    /\ last_op = "update"
    /\ outcome = "RuntimeError"
    /\ nupdates = 2

\* C3: under the max policy with the default fill, after updates at
\* pairwise disjoint in-bounds locations and aggregate, every point of a
\* location holds that update's element and every other point holds the fill.
C3_MaxDisjoint ==
    (/\ policy = "max"
     /\ fill_value = NoFill
     /\ inbounds
     /\ aggregated
     /\ \A p \in PointsOf(shape) : cover[p] <= 1)
        => \A p \in PointsOf(shape) :
               data[p] = IF cover[p] = 1 THEN Val(total[p]) ELSE Val(F32Min)

\* two disjoint updates were merged and aggregated, a point is left uncovered
C3_Witness ==
    /\ policy = "max"
    /\ fill_value = NoFill
    /\ inbounds
    /\ aggregated
    /\ nupdates = 2
    /\ \A p \in PointsOf(shape) : cover[p] <= 1
    /\ Cardinality({p \in PointsOf(shape) : cover[p] = 1}) = 2
    /\ \E p, q \in PointsOf(shape) :
           cover[p] = 1 /\ cover[q] = 1 /\ total[p] # total[q]

\* C7: with updates followed by reads of `result` and no clear, the read
\* made before aggregation runs the finalization pass once and sets the
\* flag; every read made after it runs no pass, changes no placeholder and
\* returns the stored values, which no later call changes.
C7_ResultOnce ==
    [][/\ (last_op' = "result" /\ ~cleared /\ ~aggregated)
            => /\ outcome' = "ok"
               /\ n_finalize' = n_finalize + 1
               /\ aggregated'
               /\ ret' = Returned(data')
       /\ (last_op' = "result" /\ ~cleared /\ aggregated)
            => /\ outcome' = "ok"
               /\ n_finalize' = n_finalize
               /\ data' = data
               /\ counts' = counts
               /\ placeholders' = placeholders
               /\ ret' = Returned(data)
       /\ aggregated => (data' = data /\ n_finalize' = n_finalize)]_vars

\* a read aggregated updated data with one pass
C7_Witness ==
    /\ last_op = "result"
    /\ outcome = "ok"
    /\ updated
    /\ ~cleared
    /\ n_finalize = 1
    /\ aggregated
    /\ ret = Returned(data)
    /\ \E p \in PointsOf(shape) : cover[p] = 2

\* the life-cycle state of the accumulator
AccState ==
    IF cleared THEN "Cleared"
    ELSE IF aggregated THEN "Aggregated"
    ELSE IF updated THEN "Updating"
    ELSE "Created"

\* C9: the accumulator is in exactly one of Created, Updating, Aggregated
\* and Cleared; the only calls that succeed along an edge are update from
\* Created or Updating (to Updating), aggregate or a result read from
\* Created or Updating (to Aggregated) and clear from Aggregated (to
\* Cleared); the aggregated flag never returns to false.  (A read of result
\* that leaves the state as it is follows no edge.)
C9_Original ==
    [][/\ aggregated => aggregated'
       /\ (outcome' = "ok" /\ last_op' = "update")
            => AccState \in {"Created", "Updating"} /\ AccState' = "Updating"
       /\ (outcome' = "ok" /\ last_op' = "aggregate")
            => AccState \in {"Created", "Updating"} /\ AccState' = "Aggregated"
       /\ (outcome' = "ok" /\ last_op' = "result")
            => \/ AccState \in {"Created", "Updating"} /\ AccState' = "Aggregated"
               \/ aggregated /\ AccState' = AccState
       /\ (outcome' = "ok" /\ last_op' = "clear")
            => AccState = "Aggregated" /\ AccState' = "Cleared"]_vars

-----------------------------------------------------------------------------
(* Single update calls with every kind of location: SpecCalls records the  *)
(* arguments of the last call.                                             *)

InitCalls ==
    \E pol \in Policies :
        Construct(pol, "numpy", AccOrigin, AccShape, NoFill, "args", MaxCalls)

NextCalls == \E inp \in CallInputs : update(inp.crop, inp.location)

SpecCalls == InitCalls /\ [][NextCalls]_vars

UnitStep(location) == \A a \in Axes : location[a].step \in {<<>>, <<1>>}
NonEmpty(location) == \A a \in Axes : location[a].start < location[a].stop
CropFits(crop, location) ==
    \A a \in Axes : crop.shape[a] = location[a].stop - location[a].start
Outside(location, org, shp) ==
    \E a \in Axes :
        location[a].start < org[a] \/ location[a].stop > org[a] + shp[a]

\* C4: an update whose unit-step location lies partly or wholly outside the
\* accumulator's bounds raises no error and merges exactly the part of the
\* crop that falls inside the bounds; nothing else changes.
C4_Original ==
    [][(/\ last_op' = "update"
        /\ ~aggregated
        /\ UnitStep(args'.location)
        /\ NonEmpty(args'.location)
        /\ CropFits(args'.crop, args'.location)
        /\ Outside(args'.location, origin, shape))
          => /\ outcome' = "ok"
             /\ \A p \in PointsOf(shape) :
                    data'[p] =
                        IF Covers(args'.location, origin, p)
                        THEN PolicyUpdate(policy, data[p],
                                 Contribution(args'.crop, args'.location, origin, p))
                        ELSE data[p]]_vars

\* C5: an update whose location has a range of zero or negative length
\* (stop <= start) is a silent no-op whatever the shape of the crop.
C5_Original ==
    [][(/\ last_op' = "update"
        /\ ~aggregated
        /\ UnitStep(args'.location)
        /\ \E a \in Axes : args'.location[a].stop <= args'.location[a].start)
          => /\ outcome' = "ok"
             /\ data' = data
             /\ counts' = counts]_vars

\* C6: an update whose location has a range with a step other than 1 (an
\* absent step counting as 1) raises and leaves the placeholders unchanged.
C6_Original ==
    [][(/\ last_op' = "update"
        /\ \E a \in Axes : args'.location[a].step \notin {<<>>, <<1>>})
          => /\ outcome' # "ok"
             /\ data' = data
             /\ counts' = counts]_vars

-----------------------------------------------------------------------------
(* Many overlapping contributions: SpecOverlap merges crops of ones into   *)
(* mean and gmean accumulators.                                            *)

OnesAt(l) ==
    [crop     |-> [shape |-> [a \in Axes |-> RangeLen(l[a])], base |-> 1, slope |-> 0],
     location |-> l]

\* np.ones over the first row of the volume, again and again
OverlapInputs ==
    { OnesAt([a \in Axes |-> IF a = 1 THEN Slice(AccOrigin[a], AccOrigin[a] + 1)
                                      ELSE FullRange(a)]) }

InitOverlap ==
    \E pol \in {"mean", "gmean"} :
        Construct(pol, "numpy", AccOrigin, AccShape, NoFill, "none", MaxOverlap)

NextOverlap ==
    \/ \E inp \in OverlapInputs : update(inp.crop, inp.location)
    \/ aggregate

SpecOverlap == InitOverlap /\ [][NextOverlap]_vars

\* C2: under the mean policy, after aggregate every point covered by at
\* least one contribution holds the sum of the contributions covering it
\* divided by their number, and a point covered by none holds 0 (which
\* makes the result the same for every order of the updates).
C2_Original ==
    (policy = "mean" /\ aggregated /\ inbounds)
        => \A p \in PointsOf(shape) :
               data[p] = IF cover[p] = 0 THEN Val(0)
                         ELSE Quotient(total[p], cover[p])

-----------------------------------------------------------------------------
(* Orders of the update calls: SpecOrder keeps the log of the successful   *)
(* calls and replays it in every order.                                    *)

\* an overhanging location along the first axis, the rest full
Overhang ==
    [a \in Axes |-> IF a = 1 THEN Slice(AccOrigin[a] - 1, AccOrigin[a] + 1)
                    ELSE FullRange(a)]

CropOf(l, base, slope) ==
    [crop     |-> [shape |-> [a \in Axes |-> RangeLen(l[a])], base |-> base, slope |-> slope],
     location |-> l]

\* the mean policy is also given crops at the edge of float32's integers
OrderInputs(pol) ==
    LET full == [a \in Axes |-> FullRange(a)]
        last == [a \in Axes |-> IF a = 1 THEN Slice(AccOrigin[a] + AccShape[a] - 1,
                                                     AccOrigin[a] + AccShape[a])
                                ELSE FullRange(a)]
    IN  { CropOf(full, 3, 1), CropOf(Overhang, 1, 0), CropOf(Overhang, 3, 1),
          CropOf(last, 2, 0) }
        \cup IF pol = "mean"
             THEN { CropOf(full, F32Precision, 0), CropOf(full, -F32Precision, 0) }
             ELSE {}

InitOrder ==
    \E pol \in Policies :
        Construct(pol, "numpy", AccOrigin, AccShape, NoFill, "log", MaxOrder)

NextOrder ==
    \/ \E inp \in OrderInputs(policy) : update(inp.crop, inp.location)
    \/ aggregate

SpecOrder == InitOrder /\ [][NextOrder]_vars

\* the placeholders after the calls of seq, applied from dat and cnt
RECURSIVE Replay(_, _, _, _)
Replay(seq, i, dat, cnt) ==
    IF i > Len(seq) THEN [data |-> dat, counts |-> cnt]
    ELSE LET res == UpdateEffect(policy, origin, shape, dat, cnt,
                                 seq[i].crop, seq[i].location)
         IN  Replay(seq, i + 1, res.data, res.counts)

Perms(n) == {f \in [1..n -> 1..n] : \A i, j \in 1..n : f[i] = f[j] => i = j}

\* the updates of the log applied in the order f to a new accumulator
ReplayIn(f) ==
    Replay([i \in 1..Len(log) |-> log[f[i]]], 1,
           create_placeholder(shape, DataFill(policy, fill_value)),
           create_placeholder(shape, 0))

\* the accumulator holds what the order f of its updates gives
SameAs(f) ==
    LET rep == ReplayIn(f)
    IN  IF aggregated
        THEN data = AggregateEffect(policy, rep.data, rep.counts)
        ELSE data = rep.data /\ counts = rep.counts

\* C8 as stated: for max, mean and gmean the placeholders after a multiset
\* of updates, and the aggregated result, are the same for every order of
\* the updates.
C8_Original ==
    recording = "log" => \A f \in Perms(Len(log)) : SameAs(f)

RECURSIVE CropSize(_, _)
CropSize(shp, a) == IF a = 0 THEN 1 ELSE shp[a] * CropSize(shp, a - 1)

\* a bound on the magnitude of the elements of a crop
CropBound(crop) == Abs(crop.base) + Abs(crop.slope) * CropSize(crop.shape, NDims)

RECURSIVE SumBound(_, _)
SumBound(seq, i) == IF i = 0 THEN 0 ELSE CropBound(seq[i].crop) + SumBound(seq, i - 1)

RECURSIVE ProdBound(_, _)
ProdBound(seq, i) ==
    IF i = 0 THEN 1 ELSE Max2(CropBound(seq[i].crop), 1) * ProdBound(seq, i - 1)

\* every partial sum (mean) or product (gmean) of the logged crops is an
\* integer below 2^24, which float32 holds exactly
ExactLog ==
    CASE policy = "max" -> TRUE
      [] policy = "mean" -> SumBound(log, Len(log)) <= F32Precision
      [] policy = "gmean" -> ProdBound(log, Len(log)) <= F32Precision

\* C8, amended: the placeholders and the aggregated result are the same for
\* every order of the updates under the max policy, and under the mean and
\* gmean policies when every partial sum or product of the contributions
\* is exactly representable in float32.
C8_OrderExact ==
    (recording = "log" /\ ExactLog) => \A f \in Perms(Len(log)) : SameAs(f)

\* three different overlapping updates were merged and aggregated
C8_Witness ==
    /\ recording = "log"
    /\ policy = "mean"
    /\ ExactLog
    /\ aggregated
    /\ Len(log) = 3
    /\ log[1] # log[2] /\ log[2] # log[3] /\ log[1] # log[3]
    /\ \E p \in PointsOf(shape) : cover[p] = 3

-----------------------------------------------------------------------------
(* SpecCache: threads call the cached load_slide_segy of two instances,    *)
(* while the index attribute, the traces and the cache are changed.        *)

\* a step of thread t (or of no thread) ends the solitude of the other calls
Disturbed(fr, t) ==
    [u \in Threads |->
        IF u = t \/ ~fr[u].solo THEN fr[u]
        ELSE [fr[u] EXCEPT !.solo = FALSE, !.had = NoValue,
                           !.hit0 = 0, !.miss0 = 0, !.calls0 = 0]]

acc_all == <<acc_vars, call_vars, hist_vars, geo_vars, conv_vars>>

\* the lock has been taken once more, for a hit or an insertion of the key
Touch(u, inst, key) ==
    IF recording # "used" THEN u
    ELSE [clock |-> u.clock + 1,
          at |-> [u.at EXCEPT ![inst] =
                     {e \in @ : e.key # key} \cup {[key |-> key, time |-> u.clock + 1]}]]

\* the keyword use_cache of a call: absent, True or False
Keywords == {<<>>, <<TRUE>>, <<FALSE>>}

\* use_cache of a wrapper that does not read the environment
UseCacheNoEnv(kwargs, by_default, env) ==
    IF kwargs = <<>> THEN by_default ELSE kwargs[1]

\* use_cache = kwargs.pop('use_cache', self.apply_by_default), set to False
\* if SEISMIQB_DISABLE_CACHE is set
UseCache(kwargs, by_default, env) ==
    IF env THEN FALSE
    ELSE IF kwargs = <<>> THEN by_default ELSE kwargs[1]

\* wrapper, to the first `with self.lock`; or to its return if not use_cache
call(t, inst, loc, kwargs) ==
    /\ pc[t] = "idle"
    \* idle threads are interchangeable: the first of them makes the call
    /\ t = "t1" \/ pc["t1"] # "idle"
    /\ ncached < climit
    /\ ncached' = ncached + 1
    /\ IF ~UseCache(kwargs, apply_by_default, env_disable)
       THEN /\ ncalls' = [ncalls EXCEPT ![inst] = @ + 1]
            /\ cret' = [cret EXCEPT ![t] =
                          [outcome |-> "ok",
                           value |-> Returned(load_slide_segy(inst, loc, index[inst],
                                                              source[inst]))]]
            /\ frame' = Disturbed(frame, t)
            /\ UNCHANGED pc
       ELSE /\ pc' = [pc EXCEPT ![t] = "lookup"]
            /\ frame' = Disturbed(
                   [frame EXCEPT ![t] =
                       IF rpc = NoReset
                       THEN [inst |-> inst, loc |-> loc, idx |-> index[inst],
                             key |-> make_key(loc, index[inst]),
                             result |-> NoValue,
                             had |-> CacheGet(cache[inst], make_key(loc, index[inst])),
                             hit0 |-> stats[inst].hit, miss0 |-> stats[inst].miss,
                             calls0 |-> ncalls[inst],
                             solo |-> TRUE]
                       ELSE [NoFrame EXCEPT !.inst = inst, !.loc = loc,
                                            !.idx = index[inst],
                                            !.key = make_key(loc, index[inst])]], t)
            /\ cret' = [cret EXCEPT ![t] = NoReturn]
            /\ UNCHANGED ncalls
    /\ UNCHANGED <<cache, is_full, stats, index, source, rpc, nenv>>
    /\ UNCHANGED <<acc_all, cache_opts, env_disable, lock, used>>

\* the first `with self.lock` block: the lookup, and the return on a hit;
\* the block takes the lock unless the thread already holds it
lookup(t) ==
    /\ pc[t] = "lookup"
    /\ lock \in {"free", t}
    /\ lock' = "free"
    /\ LET fr  == frame[t]
           got == CacheGet(cache[fr.inst], fr.key)
       IN  IF ~Hashable(fr.key)
           \* .get(key, ...) hashes the key
           THEN /\ cret' = [cret EXCEPT ![t] = [outcome |-> "TypeError", value |-> NoValue]]
                /\ pc' = [pc EXCEPT ![t] = "idle"]
                /\ frame' = Disturbed([frame EXCEPT ![t] = NoFrame], t)
                /\ UNCHANGED <<cache, stats, used>>
           ELSE IF got # Singleton
           THEN /\ cache' = [cache EXCEPT ![fr.inst] = MoveToEnd(@, fr.key, got.value)]
                /\ stats' = [stats EXCEPT ![fr.inst].hit = @ + 1]
                /\ cret' = [cret EXCEPT ![t] = [outcome |-> "ok", value |-> got]]
                /\ pc' = [pc EXCEPT ![t] = "idle"]
                /\ frame' = Disturbed([frame EXCEPT ![t] = NoFrame], t)
                /\ used' = Touch(used, fr.inst, fr.key)
           ELSE /\ pc' = [pc EXCEPT ![t] = "evaluate"]
                /\ frame' = Disturbed(frame, t)
                /\ UNCHANGED <<cache, stats, cret, used>>
    /\ UNCHANGED <<is_full, index, source, rpc, ncalls, ncached, nenv>>
    /\ UNCHANGED <<acc_all, cache_opts, env_disable>>

\* result = func(*args, **kwargs), outside the lock
evaluate(t) ==
    /\ pc[t] = "evaluate"
    /\ LET fr == frame[t]
       IN  /\ frame' = Disturbed(
                  [frame EXCEPT ![t].result =
                      Returned(load_slide_segy(fr.inst, fr.loc, index[fr.inst],
                                               source[fr.inst]))], t)
           /\ ncalls' = [ncalls EXCEPT ![fr.inst] = @ + 1]
    /\ pc' = [pc EXCEPT ![t] = "insert"]
    /\ UNCHANGED <<cache, is_full, stats, index, source, cret, rpc, ncached, nenv>>
    /\ UNCHANGED <<acc_all, cache_opts, env_disable, lock, used>>

\* an insertion that replaces the value of a key that is already stored
InsertLastWins(store, full, size, key, value) ==
    IF key \in {store[i].key : i \in 1..Len(store)}
    THEN [raises |-> FALSE, store |-> MoveToEnd(store, key, value), full |-> full]
    ELSE IF full
    THEN IF store = <<>>
         THEN [raises |-> TRUE, store |-> store, full |-> full]
         ELSE [raises |-> FALSE,
               store |-> Append(Tail(store), [key |-> key, value |-> value]),
               full |-> full]
    ELSE [raises |-> FALSE,
          store |-> Append(store, [key |-> key, value |-> value]),
          full |-> (Len(store) + 1 >= size)]

\* `if key in self.cache[instance_hash]: pass / elif self.is_full[...]: ... /
\* else: ...`: a stored key is left alone, a full store loses its first
\* entry (popitem of an empty store raises KeyError)
InsertEffect(store, full, size, key, value) ==
    IF key \in {store[i].key : i \in 1..Len(store)}
    THEN [raises |-> FALSE, store |-> store, full |-> full]
    ELSE IF full
    THEN IF store = <<>>
         THEN [raises |-> TRUE, store |-> store, full |-> full]
         ELSE [raises |-> FALSE,
               store |-> Append(Tail(store), [key |-> key, value |-> value]),
               full |-> full]
    ELSE [raises |-> FALSE,
          store |-> Append(store, [key |-> key, value |-> value]),
          full |-> (Len(store) + 1 >= size)]

\* the second `with self.lock` block, and the return
insert(t) ==
    /\ pc[t] = "insert"
    /\ lock \in {"free", t}
    /\ lock' = "free"
    /\ LET fr    == frame[t]
           store == cache[fr.inst]
       IN  \E eff \in {InsertEffect(store, is_full[fr.inst], maxsize, fr.key,
                                    fr.result.value)} :
               /\ stats' = [stats EXCEPT ![fr.inst].miss = @ + 1]
               /\ cache' = [cache EXCEPT ![fr.inst] = eff.store]
               /\ is_full' = [is_full EXCEPT ![fr.inst] = eff.full]
               /\ cret' = [cret EXCEPT ![t] =
                              IF eff.raises
                              THEN [outcome |-> "KeyError", value |-> NoValue]
                              ELSE [outcome |-> "ok", value |-> fr.result]]
               /\ used' = IF eff.store # store THEN Touch(used, fr.inst, fr.key)
                          ELSE used
    /\ pc' = [pc EXCEPT ![t] = "idle"]
    /\ frame' = Disturbed([frame EXCEPT ![t] = NoFrame], t)
    /\ UNCHANGED <<index, source, rpc, ncalls, ncached, nenv>>
    /\ UNCHANGED <<acc_all, cache_opts, env_disable>>

\* a reset that empties the stores of all instances, whatever its argument
reset_every_store(target) ==
    /\ rpc = NoReset
    /\ nenv < MaxEnv
    /\ nenv' = nenv + 1
    /\ cache' = [i \in Instances |-> <<>>]
    /\ rpc' = [step |-> 1, target |-> target]
    /\ frame' = Disturbed(frame, "")
    /\ UNCHANGED <<is_full, stats, index, source, pc, cret, ncalls, ncached>>
    /\ UNCHANGED <<acc_all, cache_opts, env_disable, lock, used>>

\* reset(instance) for target = {instance}, reset() for target = Instances:
\* the assignment to self.cache, made without the lock
reset(target) ==
    /\ rpc = NoReset
    /\ nenv < MaxEnv
    /\ nenv' = nenv + 1
    /\ cache' = [i \in Instances |-> IF i \in target THEN <<>> ELSE cache[i]]
    /\ rpc' = [step |-> 1, target |-> target]
    /\ frame' = Disturbed(frame, "")
    /\ UNCHANGED <<is_full, stats, index, source, pc, cret, ncalls, ncached>>
    /\ UNCHANGED <<acc_all, cache_opts, env_disable, lock, used>>

\* reset: the assignment to self.is_full
reset_is_full ==
    /\ rpc.step = 1
    /\ is_full' = [i \in Instances |-> IF i \in rpc.target THEN FALSE ELSE is_full[i]]
    /\ rpc' = [rpc EXCEPT !.step = 2]
    /\ frame' = Disturbed(frame, "")
    /\ UNCHANGED <<cache, stats, index, source, pc, cret, ncalls, ncached, nenv>>
    /\ UNCHANGED <<acc_all, cache_opts, env_disable, lock, used>>

\* reset: the assignment to self.stats, and the return
reset_stats ==
    /\ rpc.step = 2
    /\ stats' = [i \in Instances |->
                    IF i \in rpc.target THEN [hit |-> 0, miss |-> 0] ELSE stats[i]]
    /\ rpc' = NoReset
    /\ frame' = Disturbed(frame, "")
    /\ UNCHANGED <<cache, is_full, index, source, pc, cret, ncalls, ncached, nenv>>
    /\ UNCHANGED <<acc_all, cache_opts, env_disable, lock, used>>

\* SeismicGeometry.set_index: the attribute changes, the cache is not told
set_index(inst, idx) ==
    /\ index[inst] # idx
    /\ nenv < MaxEnv
    /\ nenv' = nenv + 1
    /\ index' = [index EXCEPT ![inst] = idx]
    /\ frame' = Disturbed(frame, "")
    /\ UNCHANGED <<cache, is_full, stats, source, pc, cret, rpc, ncalls, ncached>>
    /\ UNCHANGED <<acc_all, cache_opts, env_disable, lock, used>>

\* the traces behind an instance are rewritten
rewrite(inst) ==
    /\ nenv < MaxEnv
    /\ nenv' = nenv + 1
    /\ source' = [source EXCEPT ![inst] = @ + 1]
    /\ frame' = Disturbed(frame, "")
    /\ UNCHANGED <<cache, is_full, stats, index, pc, cret, rpc, ncalls, ncached>>
    /\ UNCHANGED <<acc_all, cache_opts, env_disable, lock, used>>

\* reset(instance=a) and reset(); b is the instance that is left alone
ResetTargets == {{"a"}, Instances}
\* the instances whose index and traces change
Changing == {"a"}

AccIdle == AccConstruct("max", "numpy", AccOrigin, AccShape, NoFill, "none", 0)

InitCache == AccIdle /\ CacheConstruct(MaxSize, TRUE, MaxCachedCalls)

NextCache ==
    \/ \E t \in Threads, inst \in Instances, loc \in Locs, kwargs \in Keywords :
           call(t, inst, loc, kwargs)
    \/ \E t \in Threads : lookup(t)
    \/ \E t \in Threads : evaluate(t)
    \/ \E t \in Threads : insert(t)
    \/ \E target \in ResetTargets : reset(target)
    \/ reset_is_full
    \/ reset_stats
    \/ \E inst \in Changing, idx \in IndexValues : set_index(inst, idx)
    \/ \E inst \in Changing : rewrite(inst)

SpecCache == InitCache /\ [][NextCache]_vars

\* C10: of two successive cached calls of the method on one instance with
\* the same arguments and an unchanged index, with no reset or eviction of
\* the entry between them, the first is a miss that runs the wrapped
\* function once and stores its result; the second does not run the wrapped
\* function, returns the stored value, adds exactly 1 to the instance's hit
\* counter and leaves its miss counter unchanged.
C10_MissThenHit ==
    [][\A t \in Threads :
          (pc[t] # "idle" /\ pc'[t] = "idle" /\ frame[t].solo)
            => LET fr   == frame[t]
                   inst == fr.inst
               IN  IF fr.had = Singleton
                   THEN /\ cret'[t].outcome = "ok"
                        /\ ncalls'[inst] = fr.calls0 + 1
                        /\ stats'[inst] = [hit |-> fr.hit0, miss |-> fr.miss0 + 1]
                        /\ CacheGet(cache'[inst], fr.key) = cret'[t].value
                   ELSE /\ cret'[t] = [outcome |-> "ok", value |-> fr.had]
                        /\ ncalls'[inst] = fr.calls0
                        /\ stats'[inst] = [hit |-> fr.hit0 + 1, miss |-> fr.miss0]]_vars

\* a second call has hit the entry of the first, although the traces were
\* rewritten between them
C10_Witness ==
    \E t \in Threads :
        /\ pc[t] = "idle"
        /\ cret[t].outcome = "ok"
        /\ cret[t].value = Returned(load_slide_segy("a", 1, <<1, 2>>, 0))
        /\ source["a"] = 1
        /\ stats["a"] = [hit |-> 1, miss |-> 1]
        /\ ncalls["a"] = 1
        /\ ncached = 2
        /\ \A u \in Threads : pc[u] = "idle"

-----------------------------------------------------------------------------
(* SpecBypass: threads call the cached method of a wrapper built with      *)
(* either default, with and without the keyword, while the environment     *)
(* switch is set and unset.                                                *)

\* os.environ['SEISMIQB_DISABLE_CACHE'] is set (v) or emptied (~v)
setenv(v) ==
    /\ env_disable # v
    /\ nenv < MaxEnv
    /\ nenv' = nenv + 1
    /\ env_disable' = v
    /\ UNCHANGED <<cache_opts, cache, is_full, stats, index, source, pc, frame, cret,
                   rpc, ncalls, ncached, lock, used>>
    /\ UNCHANGED acc_all

InitBypass ==
    AccIdle /\ \E by_default \in BOOLEAN : CacheConstruct(MaxSize, by_default, MaxCachedCalls)

NextBypass ==
    \/ \E t \in Threads, inst \in Instances, loc \in Locs, kwargs \in Keywords :
           call(t, inst, loc, kwargs)
    \/ \E t \in Threads : lookup(t)
    \/ \E t \in Threads : evaluate(t)
    \/ \E t \in Threads : insert(t)
    \/ \E v \in BOOLEAN : setenv(v)

SpecBypass == InitBypass /\ [][NextBypass]_vars

\* the calls the claim says bypass the cache
Bypassing(kwargs) ==
    \/ kwargs = <<FALSE>>
    \/ env_disable
    \/ kwargs = <<>> /\ ~apply_by_default

\* C11: a call made with use_cache=False, any call made while the
\* environment switch is set, and a call without the keyword on a wrapper
\* whose default is not to cache, runs the wrapped function exactly once and
\* returns its result, and leaves the stores, the full flags and the hit and
\* miss counters of every instance as they were.
C11_Bypass ==
    [][\A t \in Threads, inst \in Instances, loc \in Locs, kwargs \in Keywords :
          (call(t, inst, loc, kwargs) /\ Bypassing(kwargs))
            => /\ cache' = cache /\ is_full' = is_full /\ stats' = stats
               /\ ncalls' = [ncalls EXCEPT ![inst] = @ + 1]
               /\ pc'[t] = "idle"
               /\ cret'[t] = [outcome |-> "ok",
                              value |-> Returned(load_slide_segy(inst, loc, index[inst],
                                                                 source[inst]))]]_vars

\* a call has returned while the switch was set on a wrapper that caches by
\* default: the function ran, the store is empty and nothing was counted
C11_Witness ==
    /\ env_disable /\ apply_by_default
    /\ ncached = 1
    /\ pc["t1"] = "idle" /\ cret["t1"].outcome = "ok"
    /\ ncalls["a"] = 1
    /\ cache["a"] = <<>>
    /\ stats["a"] = [hit |-> 0, miss |-> 0]

-----------------------------------------------------------------------------
(* SpecEvict: one thread calls the cached method with one slide more than  *)
(* a store holds, and the time of the last hit or insertion of every key   *)
(* is kept.                                                                *)
MaxEvictSize == 2
MaxEvictCalls == 4
EvictLocs == 0..MaxEvictSize

InitEvict ==
    /\ AccConstruct("max", "numpy", AccOrigin, AccShape, NoFill, "used", 0)
    /\ CacheConstruct(MaxEvictSize, TRUE, MaxEvictCalls)

NextEvict ==
    \/ \E inst \in Instances, loc \in EvictLocs : call("t1", inst, loc, <<>>)
    \/ lookup("t1")
    \/ evaluate("t1")
    \/ insert("t1")

SpecEvict == InitEvict /\ [][NextEvict]_vars

KeysOf(store) == {store[i].key : i \in 1..Len(store)}

\* the key of the instance whose last hit or insertion is the oldest
Oldest(inst) ==
    (CHOOSE e \in used.at[inst] :
        e.key \in KeysOf(cache[inst])
        /\ \A f \in used.at[inst] : f.key \in KeysOf(cache[inst]) => e.time <= f.time).key

\* C12: when the insertion of a new key finds the store of the instance at
\* capacity, the step removes exactly the entry of that instance whose most
\* recent hit or insertion is the oldest and adds the new entry; the other
\* entries of the store and the stores of the other instances stay.
C12_EvictsOldest ==
    [][\A t \in Threads :
          (pc[t] = "insert" /\ pc'[t] = "idle"
           /\ Len(cache[frame[t].inst]) = maxsize
           /\ frame[t].key \notin KeysOf(cache[frame[t].inst]))
            => LET inst == frame[t].inst
                   key  == frame[t].key
               IN  /\ KeysOf(cache'[inst]) =
                          (KeysOf(cache[inst]) \ {Oldest(inst)}) \cup {key}
                   /\ Len(cache'[inst]) = maxsize
                   /\ CacheGet(cache'[inst], key) = frame[t].result
                   /\ \A k \in KeysOf(cache[inst]) \ {Oldest(inst)} :
                          CacheGet(cache'[inst], k) = CacheGet(cache[inst], k)
                   /\ \A i \in Instances \ {inst} : cache'[i] = cache[i]]_vars

\* slides 0 and 1 were loaded, slide 0 was hit, and the load of slide 2 has
\* evicted slide 1, the older insertion being the more recently used
C12_Witness ==
    /\ pc["t1"] = "idle"
    /\ KeysOf(cache["a"]) = {make_key(0, index["a"]), make_key(2, index["a"])}
    /\ stats["a"] = [hit |-> 1, miss |-> 3]
    /\ cache["b"] = <<>>

-----------------------------------------------------------------------------
(* Races under SpecCache: two threads in the wrapper for one key, and      *)
(* resets between the statements of a call.                                *)

\* thread t leaves the second locked block
Inserts(t) == pc[t] = "insert" /\ pc'[t] = "idle"

\* thread t inserts a key that another thread stored after t had missed it
InsertsSecond(t) == Inserts(t) /\ frame[t].key \in KeysOf(cache[frame[t].inst])

\* C13 as claimed: when two threads miss the same key of one instance and
\* both run the wrapped function and insert, the store then holds one entry
\* for the key, with the value of the thread that inserted last.
C13_Original ==
    [][\A t \in Threads :
          InsertsSecond(t)
            => LET inst == frame[t].inst
                   key  == frame[t].key
               IN  /\ Cardinality({i \in 1..Len(cache'[inst]) :
                                      cache'[inst][i].key = key}) = 1
                   /\ CacheGet(cache'[inst], key) = frame[t].result]_vars

\* C13: when two threads miss the same key of one instance, both run the
\* wrapped function and both count a miss; the store then holds one entry
\* for the key, with the value of the thread that inserted first: the second
\* insertion leaves the store and the full flag as they are, and the second
\* thread returns its own result.
C13_FirstWins ==
    [][\A t \in Threads :
          InsertsSecond(t)
            => LET inst == frame[t].inst
                   key  == frame[t].key
               IN  /\ Cardinality({i \in 1..Len(cache'[inst]) :
                                      cache'[inst][i].key = key}) = 1
                   /\ cache' = cache
                   /\ is_full' = is_full
                   /\ stats' = [stats EXCEPT ![inst].miss = @ + 1]
                   /\ frame[t].result # NoValue
                   /\ cret'[t] = [outcome |-> "ok", value |-> frame[t].result]]_vars

\* both threads have loaded slide 0 of instance a, t1 before and t2 after
\* the traces were rewritten; the store holds what t1 loaded
C13_Witness ==
    /\ pc["t1"] = "idle" /\ pc["t2"] = "idle"
    /\ cret["t1"] = [outcome |-> "ok",
                     value |-> Returned(load_slide_segy("a", 0, <<1, 2>>, 0))]
    /\ cret["t2"] = [outcome |-> "ok",
                     value |-> Returned(load_slide_segy("a", 0, <<1, 2>>, 1))]
    /\ ncalls["a"] = 2
    /\ stats["a"] = [hit |-> 0, miss |-> 2]
    /\ cache["a"] = <<[key |-> make_key(0, <<1, 2>>),
                       value |-> load_slide_segy("a", 0, <<1, 2>>, 0)]>>

-----------------------------------------------------------------------------
(* SpecRace: as SpecCache, with the entry into a `with self.lock` block    *)
(* as a step of its own, so that what other threads do while the lock is   *)
(* held is seen.                                                           *)

\* `with self.lock`: the thread takes the lock of the block it stands before
acquire(t) ==
    /\ pc[t] \in {"lookup", "insert"}
    /\ lock = "free"
    /\ lock' = t
    /\ UNCHANGED <<cache_opts, env_disable, cache, is_full, stats, index, source, pc,
                   frame, cret, rpc, ncalls, ncached, nenv, used>>
    /\ UNCHANGED acc_all

NextRace ==
    \/ \E t \in Threads, inst \in Instances, loc \in Locs, kwargs \in Keywords :
           call(t, inst, loc, kwargs)
    \/ \E t \in Threads : acquire(t)
    \/ \E t \in Threads : lock = t /\ lookup(t)
    \/ \E t \in Threads : evaluate(t)
    \/ \E t \in Threads : lock = t /\ insert(t)
    \/ \E target \in ResetTargets : reset(target)
    \/ reset_is_full
    \/ reset_stats

SpecRace == InitCache /\ [][NextRace]_vars

\* C14 as claimed: every change of a store, a full flag or the counters of
\* an instance, by a lookup, an insertion, an eviction or a reset, is made
\* while the lock is held, so that no thread is inside a locked block while
\* a reset is between its first and its last assignment.
C14_Original == lock # "free" => rpc = NoReset

\* C15 as claimed: the bookkeeping of the cache never raises: under every
\* interleaving of calls and resets no call of the wrapper ends with an
\* exception of the eviction (KeyError of popitem on a store found empty).
C15_Original == \A t \in Threads : cret[t].outcome # "KeyError"

\* thread t leaves the first locked block with a hit
Hits(t) == pc[t] = "lookup" /\ pc'[t] = "idle"

\* C16 as claimed: a call that no other thread and no change disturbs never
\* returns a value that was cached under another value of the index than the
\* one the instance has, a re-ordering of the same headers included: after
\* set_index a call with the same arguments misses and loads the slide again.
C16_Original ==
    [][\A t \in Threads :
          (Hits(t) /\ frame[t].solo)
            => \E ver \in 0..MaxEnv :
                         cret'[t].value =
                             Returned(load_slide_segy(frame[t].inst, frame[t].loc,
                                                      frame[t].idx, ver))]_vars

-----------------------------------------------------------------------------
(* SpecArgs: threads call the cached method with slide numbers, with a     *)
(* set, with a list and with a list that holds a set.                      *)
NextArgs ==
    \/ \E t \in Threads, inst \in Instances, loc \in Locs \cup OddArgs,
          kwargs \in Keywords : call(t, inst, loc, kwargs)
    \/ \E t \in Threads : lookup(t)
    \/ \E t \in Threads : evaluate(t)
    \/ \E t \in Threads : insert(t)

SpecArgs == InitCache /\ [][NextArgs]_vars

\* thread t returns from, or raises in, a call that went to the cache
Leaves(t) == pc[t] \in {"lookup", "insert"} /\ pc'[t] = "idle"

-----------------------------------------------------------------------------
(* Resets under SpecCache.                                                 *)

\* C18: each of the three assignments of reset(instance=a) changes the
\* store, the full flag or the counters of a alone: the store of a becomes
\* empty, its flag false and its counters zero, and the stores, flags and
\* counters of every other instance stay; reset() without an instance does
\* the same to every instance.
C18_ResetScope ==
    [][rpc' # rpc
         => LET target == IF rpc = NoReset THEN rpc'.target ELSE rpc.target
            IN  /\ \A i \in Instances \ target :
                       /\ cache'[i] = cache[i]
                       /\ is_full'[i] = is_full[i]
                       /\ stats'[i] = stats[i]
                /\ \A i \in target :
                       /\ rpc'.step = 1 => cache'[i] = <<>>
                       /\ rpc'.step = 2 => ~is_full'[i]
                       /\ rpc' = NoReset => stats'[i] = [hit |-> 0, miss |-> 0]
                /\ rpc'.step # 1 => cache' = cache
                /\ rpc'.step # 2 => is_full' = is_full
                /\ rpc' # NoReset => stats' = stats]_vars

\* reset(instance=a) has returned after a slide of each instance was loaded:
\* a has nothing left, b has its entry and its miss
C18_Witness ==
    /\ rpc = NoReset /\ nenv = 1
    /\ index["a"] = <<1, 2>> /\ source["a"] = 0
    /\ pc["t1"] = "idle" /\ pc["t2"] = "idle"
    /\ ncalls = [i \in Instances |-> 1]
    /\ cache["a"] = <<>> /\ ~is_full["a"] /\ stats["a"] = [hit |-> 0, miss |-> 0]
    /\ Len(cache["b"]) = 1 /\ is_full["b"] /\ stats["b"] = [hit |-> 0, miss |-> 1]

-----------------------------------------------------------------------------
(* SpecGeometry: a SEG-Y cube with the index (INLINE_3D, CROSSLINE_3D), its *)
(* conversion to HDF5, and load_crop on either.  Positions along an axis   *)
(* and samples of a trace count from 1, traces of the file from 0.         *)
MaxLines == 2
MaxDepth == 2
Threshold == 10

\* the values that either header takes, and the samples of a trace
HeaderValues == 1..MaxLines
Samples == 1..MaxDepth
Pairs == HeaderValues \X HeaderValues

\* the files: their traces are sorted by the first header or by the second,
\* and at most one pair of header values has no trace
Orders == {"inline", "crossline"}
Missing == {{}} \cup {{p} : p \in Pairs}

Before(p, q, order) ==
    IF order = "inline"
    THEN p[1] < q[1] \/ (p[1] = q[1] /\ p[2] < q[2])
    ELSE p[2] < q[2] \/ (p[2] = q[2] /\ p[1] < q[1])

\* process_segy: the column trace_index of the dataframe indexed by the two
\* headers: the position in the file of the trace of each pair
HeaderTable(order, missing) ==
    [p \in Pairs \ missing |->
        Cardinality({q \in Pairs \ missing : Before(q, p, order)})]

\* self.segyfile.trace.raw[k]: no sample of a trace of the file is zero
Trace(k) == [d \in Samples |-> k * MaxDepth + d]

\* np.sort(np.unique(...)) of a set of numbers
SortedUnique(S) ==
    [i \in 1..Cardinality(S) |-> CHOOSE v \in S : Cardinality({w \in S : w < v}) = i - 1]

\* self.vals[axis]
vals(df, axis) == SortedUnique({p[axis + 1] : p \in DOMAIN df})

\* self.dataframe['trace_index'].get(iterator, np.nan).values: <<k>> for the
\* trace of a pair, <<>> (nan) for a pair without a row
GetIndices(df, iterator) ==
    [k \in 1..Len(iterator) |->
        IF iterator[k] \in DOMAIN df THEN <<df[iterator[k]]>> ELSE <<>>]

\* np.unique of trace indices: ascending, the nans last
np_unique(indices) ==
    LET present == {k \in 1..Len(indices) : indices[k] # <<>>}
        found   == SortedUnique({indices[k][1] : k \in present})
    IN  [i \in 1..(Len(found) + Len(indices) - Cardinality(present)) |->
            IF i <= Len(found) THEN <<found[i]>> ELSE <<>>]

load_trace_segy(idx) == IF idx # <<>> THEN Trace(idx[1]) ELSE [d \in Samples |-> 0]

load_traces_segy(indices) == [k \in 1..Len(indices) |-> load_trace_segy(indices[k])]

make_slide_indices_2d(df, loc, axis) ==
    LET location == vals(df, axis)[loc]
        others   == vals(df, 1 - axis)
    IN  GetIndices(df, [k \in 1..Len(others) |->
                           IF axis = 0 THEN <<location, others[k]>>
                           ELSE <<others[k], location>>])

\* load_slide_segy(loc, axis=axis) of the cube: a row per value of the other
\* header
slide_segy(df, loc, axis) == load_traces_segy(make_slide_indices_2d(df, loc, axis))

ShapeOf(locations) == <<Len(locations[1]), Len(locations[2]), Len(locations[3])>>
Box(shp) == (1..shp[1]) \X (1..shp[2]) \X (1..shp[3])
Raised(error) == [outcome |-> error]
Array(shp, at) == [outcome |-> "ok", shape |-> shp, at |-> at]

\* np.argmin of a shape: the first axis of the least length
ArgMin(shp) ==
    (CHOOSE a \in 1..3 : (\A b \in 1..3 : shp[a] <= shp[b])
                         /\ (\A b \in 1..(a - 1) : shp[b] > shp[a])) - 1

make_crop_indices(df, locations) ==
    LET n1 == Len(locations[2])
    IN  np_unique(GetIndices(df,
            [k \in 1..(Len(locations[1]) * n1) |->
                <<vals(df, 0)[locations[1][((k - 1) \div n1) + 1]],
                  vals(df, 1)[locations[2][((k - 1) % n1) + 1]]>>]))

\* load_crop_segy: the traces in the order of make_crop_indices, reshaped
load_crop_segy(df, locations) ==
    LET shp    == ShapeOf(locations)
        traces == load_traces_segy(make_crop_indices(df, locations))
    IN  IF Len(traces) # shp[1] * shp[2]
        THEN Raised("ValueError")
        ELSE Array(shp, [x \in Box(shp) |->
                            traces[(x[1] - 1) * shp[2] + x[2]][locations[3][x[3]]]])

\* load_segy: the axis of the slides to stack, <<>> for the crop of traces
slide_axis(shp, mode) ==
    LET least == Min2(shp[1], Min2(shp[2], shp[3]))
        how   == IF mode # "none" THEN mode
                 ELSE IF least < Threshold THEN "slide" ELSE "crop"
    IN  IF how = "slide" /\ ArgMin(shp) \in {0, 1} THEN <<ArgMin(shp)>> ELSE <<>>

\* load_segy: slides stacked along the shortest spatial axis, or the crop
load_segy(df, locations, mode) ==
    LET shp   == ShapeOf(locations)
        along == slide_axis(shp, mode)
    IN  IF along = <<0>>
        THEN LET full == <<shp[1], Len(vals(df, 1)), shp[3]>>
             IN  Array(full, [x \in Box(full) |->
                     slide_segy(df, locations[1][x[1]], 0)[x[2]][locations[3][x[3]]]])
        ELSE IF along = <<1>>
        THEN LET full == <<Len(vals(df, 0)), shp[2], shp[3]>>
             IN  Array(full, [x \in Box(full) |->
                     slide_segy(df, locations[2][x[2]], 1)[x[1]][locations[3][x[3]]]])
        ELSE load_crop_segy(df, locations)

\* a conversion that writes the slides into cube_h as they are
Untransposed(df) ==
    LET I == Len(vals(df, 0))
        X == Len(vals(df, 1))
    IN  [cube   |-> [x \in (1..I) \X (1..X) \X Samples |-> slide_segy(df, x[1], 0)[x[2]][x[3]]],
         cube_x |-> [x \in (1..X) \X Samples \X (1..I) |-> slide_segy(df, x[1], 1)[x[3]][x[2]]],
         cube_h |-> [x \in Samples \X (1..I) \X (1..X) |->
                        slide_segy(df, x[2], 0)[((x[1] - 1) % X) + 1][((x[3] - 1) % MaxDepth) + 1]]]

\* the datasets that make_hdf5 writes: cube[i] = slide i, cube_h[:, i, :] =
\* slide i transposed, cube_x[x] = slide x of axis 1 transposed
Projections(df) ==
    LET I == Len(vals(df, 0))
        X == Len(vals(df, 1))
    IN  [cube   |-> [x \in (1..I) \X (1..X) \X Samples |-> slide_segy(df, x[1], 0)[x[2]][x[3]]],
         cube_x |-> [x \in (1..X) \X Samples \X (1..I) |-> slide_segy(df, x[1], 1)[x[3]][x[2]]],
         cube_h |-> [x \in Samples \X (1..I) \X (1..X) |-> slide_segy(df, x[2], 0)[x[3]][x[1]]]]

\* an axis identifier is written as a string: "0", "1", "2" are the integers
\* 0, 1, 2.  The `mapping` of load_hdf5
mapping ==
    [k \in {"0", "1", "2", "i", "x", "h", "iline", "xline", "height", "depth"} |->
        IF k \in {"0", "i", "iline"} THEN 0
        ELSE IF k \in {"1", "x", "xline"} THEN 1
        ELSE 2]

\* a load_hdf5 that reads every crop from the dataset cube
always_cube(h5, shp, axis) == "cube"

\* load_hdf5: the dataset the crop is read from: the one of the axis, by
\* default of the shortest axis of the crop, or cube if the file lacks it
dataset_of(h5, shp, axis) ==
    LET ax == IF axis = <<>> THEN ArgMin(shp) ELSE mapping[axis[1]]
    IN  IF ax = 1 /\ "cube_x" \in DOMAIN h5 THEN "cube_x"
        ELSE IF ax = 2 /\ "cube_h" \in DOMAIN h5 THEN "cube_h"
        ELSE "cube"

\* load_hdf5: the crop, read from the dataset by _load_hdf5_i, _load_hdf5_x
\* or _load_hdf5_h
load_hdf5(h5, locations, axis) ==
    LET shp == ShapeOf(locations)
        l   == locations
    IN  IF axis # <<>> /\ axis[1] \notin DOMAIN mapping
        THEN Raised("KeyError")
        ELSE IF dataset_of(h5, shp, axis) = "cube_x"
        THEN Array(shp, [x \in Box(shp) |-> h5.cube_x[<<l[2][x[2]], l[3][x[3]], l[1][x[1]]>>]])
        ELSE IF dataset_of(h5, shp, axis) = "cube_h"
        THEN Array(shp, [x \in Box(shp) |-> h5.cube_h[<<l[3][x[3]], l[1][x[1]], l[2][x[2]]>>]])
        ELSE Array(shp, [x \in Box(shp) |-> h5.cube[<<l[1][x[1]], l[2][x[2]], l[3][x[3]]>>]])

geo_rest_conv == <<acc_vars, call_vars, hist_vars, cache_vars>>
geo_rest == <<geo_rest_conv, conv_vars>>

\* SeismicGeometry.process_segy of one of the files
process_segy(order, missing) ==
    /\ DOMAIN dataframe = {}
    /\ dataframe' = HeaderTable(order, missing)
    /\ UNCHANGED <<file_hdf5, loaded, geo_rest>>

\* `if os.path.exists(path): os.remove(path)` never removes
never_removed(exists) == exists

\* `if os.path.exists(path): os.remove(path)`: whether a file is at the path
\* afterwards
remove_if_exists(exists) == FALSE

\* h5py.File(path, mode) for the creating modes: 'w-' fails if a file is at
\* the path, 'a' opens it with the datasets it has
h5py_File(exists, mode) == IF mode = "w-" /\ exists THEN "OSError" ELSE "ok"

\* the file at the path of the conversions, before a creation
Before_(disk) == IF disk = <<>> THEN <<>> ELSE <<DOMAIN disk[1]>>

\* SeismicGeometry.make_hdf5 with the default path and dtype, before the
\* load: the file is opened with mode "a", the three datasets are created
\* (create_dataset raises ValueError for a name the file has) and written,
\* and the file is opened again for reading
make_hdf5 ==
    /\ DOMAIN dataframe # {}
    /\ loaded.op = "none"
    /\ made.n < MaxCreations
    /\ LET exists == remove_if_exists(converted # <<>>)
           wrote  == Projections(dataframe)
       IN  IF exists /\ DOMAIN converted[1] \cap DOMAIN wrote # {}
           THEN /\ made' = [op |-> "make_hdf5", before |-> Before_(converted),
                            outcome |-> "ValueError", n |-> made.n + 1]
                /\ UNCHANGED <<converted, file_hdf5>>
           ELSE /\ made' = [op |-> "make_hdf5", before |-> Before_(converted),
                            outcome |-> "ok", n |-> made.n + 1]
                /\ converted' = IF exists THEN <<wrote @@ converted[1]>> ELSE <<wrote>>
                /\ file_hdf5' = converted'[1]
    /\ UNCHANGED <<dataframe, loaded, geo_rest_conv, quantizer, held, out, trail>>

\* indexing an axis of length n of an ndarray (or the first axis of an HDF5
\* dataset) with an integer: position p stands for the index p - 1, an index
\* in -n..-1 counts from the end, any other index outside the axis raises
\* IndexError (0 here)
np_index(n, p) ==
    IF p \in 1..n THEN p
    ELSE IF p \in (1 - n)..0 THEN p + n
    ELSE 0

\* SeismicGeometry.load_crop, once: the HDF5 cube indexes all three axes, the
\* SEG-Y cube the axis of the slides and the depths, or all three for the
\* crop of traces
load_crop(locations, axis, mode) ==
    /\ DOMAIN dataframe # {} \/ DOMAIN file_hdf5 # {}
    /\ loaded.op = "none"
    /\ LET structured == DOMAIN file_hdf5 # {}
           dims    == IF structured
                      THEN [a \in 1..3 |-> Cardinality({y[a] : y \in DOMAIN file_hdf5.cube})]
                      ELSE <<Len(vals(dataframe, 0)), Len(vals(dataframe, 1)), MaxDepth>>
           along   == slide_axis(ShapeOf(locations), mode)
           indexed == IF structured \/ along = <<>>
                      THEN {1, 2, 3} ELSE {along[1] + 1, 3}
           taken   == [a \in 1..3 |-> [k \in 1..Len(locations[a]) |->
                          np_index(dims[a], locations[a][k])]]
           fails   == \E a \in indexed : \E k \in 1..Len(locations[a]) : taken[a][k] = 0
           known   == axis = <<>> \/ axis[1] \in DOMAIN mapping
       IN  loaded' = IF structured
                     THEN [op |-> "load_hdf5", locations |-> locations, axis |-> axis,
                           dataset |-> IF known
                                       THEN <<dataset_of(file_hdf5, ShapeOf(locations), axis)>>
                                       ELSE <<>>,
                           crop |-> IF known /\ fails THEN Raised("IndexError")
                                    ELSE load_hdf5(file_hdf5, taken, axis)]
                     ELSE [op |-> "load_segy", locations |-> locations, mode |-> mode,
                           along |-> along,
                           crop |-> IF fails THEN Raised("IndexError")
                                    ELSE load_segy(dataframe, taken, mode)]
    /\ UNCHANGED <<dataframe, file_hdf5, geo_rest>>

\* np.arange(a, b) within 1..n
Ranges(n) == {[k \in 1..(b - a + 1) |-> a + k - 1] : a \in 1..n, b \in 1..n} \ {<<>>}
Locations == Ranges(MaxLines) \X Ranges(MaxLines) \X Ranges(MaxDepth)
AxisArgs == {<<>>, <<"0">>, <<"1">>, <<"2">>}
Modes == {"none", "slide", "crop"}

InitGeometry == AccIdle /\ CacheConstruct(MaxSize, TRUE, 0)

NextGeometry ==
    \/ \E order \in Orders, missing \in Missing : process_segy(order, missing)
    \/ DOMAIN file_hdf5 = {} /\ make_hdf5
    \* the HDF5 cube ignores the mode, the SEG-Y cube the axis
    \/ \E locations \in Locations, axis \in AxisArgs, mode \in Modes :
           /\ IF DOMAIN file_hdf5 # {} THEN mode = "none" ELSE axis = <<>>
           /\ load_crop(locations, axis, mode)

SpecGeometry == InitGeometry /\ [][NextGeometry]_vars

\* the crop of the location: at (i, j, d) the sample locations[3][d] of the
\* trace of the pair (vals[0][locations[1][i]], vals[1][locations[2][j]]),
\* and zero if the pair has no row
Original(df, locations) ==
    Array(ShapeOf(locations),
          [x \in Box(ShapeOf(locations)) |->
              LET pair == <<vals(df, 0)[locations[1][x[1]]], vals(df, 1)[locations[2][x[2]]]>>
              IN  IF pair \in DOMAIN df THEN Trace(df[pair])[locations[3][x[3]]] ELSE 0])

\* C19 as claimed: load_crop on the SEG-Y cube, by stacked slides or by the
\* crop of traces and for either order of the traces in the file, returns
\* without an error the crop of the location, with zero traces at the pairs
\* that have no row.
C19_Original ==
    loaded.op = "load_segy" => loaded.crop = Original(dataframe, loaded.locations)

\* C20: after make_hdf5 with the default dtype, load_crop on the HDF5 cube
\* returns for every location and for every axis (0, 1, 2 or none) the crop
\* of the location of the SEG-Y cube, with zero traces at the pairs that have
\* no row: the three projections agree.
C20_RoundTrip ==
    loaded.op = "load_hdf5" => loaded.crop = Original(dataframe, loaded.locations)

\* the whole cube of a file without a trace for the pair (1, 1) and sorted
\* by the second header was read from the projection cube_h
C20_Witness ==
    /\ loaded.op = "load_hdf5"
    /\ loaded.axis = <<"2">>
    /\ <<1, 1>> \notin DOMAIN dataframe
    /\ dataframe[<<2, 1>>] = 0
    /\ loaded.crop.shape = <<MaxLines, MaxLines, MaxDepth>>
    /\ loaded.crop.at[<<1, 1, 1>>] = 0
    /\ loaded.crop.at[<<2, 1, 1>>] = 1
    /\ loaded.crop.at[<<1, 2, 2>>] = 2 * MaxDepth

\* ---------------------------------------------------------------------------
\* load_crop with locations outside the cube
\* ---------------------------------------------------------------------------

\* locations of one index per axis, in the cube (numpy index 0) or outside
\* it (numpy indices -1, n, -n - 1), and np.arange(-1, 1)
Strays(n) == {<<1>>, <<0>>, <<n + 1>>, <<0 - n>>, <<0, 1>>}
StrayLocations == Strays(MaxLines) \X Strays(MaxLines) \X Strays(MaxDepth)

NextBounds ==
    \/ \E order \in Orders, missing \in Missing : process_segy(order, missing)
    \/ DOMAIN file_hdf5 = {} /\ make_hdf5
    \/ \E locations \in StrayLocations, axis \in AxisArgs, mode \in Modes :
           /\ IF DOMAIN file_hdf5 # {} THEN mode = "none" ELSE axis = <<>>
           /\ load_crop(locations, axis, mode)

SpecBounds == InitGeometry /\ [][NextBounds]_vars

\* every index of the location is within its axis of the cube
WithinCube(df, locations) ==
    /\ \A k \in 1..Len(locations[1]) : locations[1][k] \in 1..Len(vals(df, 0))
    /\ \A k \in 1..Len(locations[2]) : locations[2][k] \in 1..Len(vals(df, 1))
    /\ \A k \in 1..Len(locations[3]) : locations[3][k] \in Samples

\* C21 as claimed: load_crop of a location with an index outside the bounds
\* of the cube on some axis (negative, or at least the length of the axis)
\* raises an error on the SEG-Y cube and on the HDF5 cube: it returns no
\* data.
C21_Original ==
    loaded.op # "none" /\ ~WithinCube(dataframe, loaded.locations)
        => loaded.crop.outcome # "ok"

\* ---------------------------------------------------------------------------
\* Quantizer: quantize and dequantize
\* ---------------------------------------------------------------------------
\* Arrays are modelled by one element, values by the integers: the ranges are
\* chosen so that every bin edge is an integer, which float32 holds exactly.

\* np.histogram_bin_edges(None, bins=254, range=ranges)
NBins == 254
\* quantize and dequantize calls per behaviour
MaxTransforms == 4

\* the arguments of Quantizer: ranges with bins of width 2, and the mean
QuantizerArgs == [ranges : {<<0 - NBins, NBins>>}, clip : BOOLEAN, center : BOOLEAN,
                  mean : {3}]

\* the elements given to quantize: from below the ranges to above them
Values == (0 - NBins - 3)..(NBins + 3)

histogram_bin_edges(ranges) ==
    [k \in 1..(NBins + 1) |-> ranges[1] + (k - 1) * ((ranges[2] - ranges[1]) \div NBins)]

\* np.digitize(x, bins) for increasing bins: the number of edges <= x
np_digitize(x, bins) == Cardinality({k \in 1..Len(bins) : bins[k] <= x})

np_clip(x, lo, hi) == Max2(lo, Min2(x, hi))

\* Quantizer.__init__
Quantizer(a) ==
    /\ quantizer = <<>>
    /\ quantizer' = [ranges |-> a.ranges, clip |-> a.clip, center |-> a.center,
                     mean |-> a.mean, bins |-> histogram_bin_edges(a.ranges)]
    /\ UNCHANGED <<held, out, trail, converted, made, geo_vars, geo_rest_conv>>

\* the array of a call: the array object the caller passed last time, or the
\* one the last call returned, or for the first call a new float32 array
Passed(arg) ==
    IF arg = "held" THEN {held} \ {<<>>}
    ELSE IF arg = "out" THEN {out} \ {<<>>}
    ELSE {[dtype |-> "float32", value |-> v] : v \in {w \in Values : trail = <<>>}}

\* Quantizer.quantize of a float32 array: `array -= self.mean` works in
\* place, np.clip and np.digitize make new arrays
quantize(arg) ==
    /\ quantizer # <<>>
    /\ Len(trail) < MaxTransforms
    /\ \E array \in Passed(arg) :
         /\ array.dtype = "float32"
         /\ LET centred == IF quantizer.center THEN array.value - quantizer.mean
                           ELSE array.value
                clipped == IF quantizer.clip
                           THEN np_clip(centred, quantizer.ranges[1], quantizer.ranges[2])
                           ELSE centred
                code    == Wrap8(np_digitize(clipped, quantizer.bins) - 128)
            IN  /\ held' = [dtype |-> "float32", value |-> centred]
                /\ out' = [dtype |-> "int8", value |-> code]
                /\ trail' = Append(trail, [op |-> "quantize", arg |-> arg,
                                           given |-> array.value, left |-> centred,
                                           returned |-> code])
    /\ UNCHANGED <<quantizer, converted, made, geo_vars, geo_rest_conv>>

\* Quantizer.dequantize of an int8 array: `array += 128` works in place and
\* in int8 (the sum is cast back to the dtype of the array, modulo 2^8), and
\* self.bins[array] counts a negative index from the end of the 255 edges
dequantize(arg) ==
    /\ quantizer # <<>>
    /\ Len(trail) < MaxTransforms
    /\ \E array \in Passed(arg) :
         /\ array.dtype = "int8"
         /\ LET shifted == Wrap8(array.value + 128)
                edge    == quantizer.bins[np_index(NBins + 1, shifted + 1)]
                value   == IF quantizer.center THEN edge + quantizer.mean ELSE edge
            IN  /\ held' = [dtype |-> "int8", value |-> shifted]
                /\ out' = [dtype |-> "float32", value |-> value]
                /\ trail' = Append(trail, [op |-> "dequantize", arg |-> arg,
                                           given |-> array.value, left |-> shifted,
                                           returned |-> value])
    /\ UNCHANGED <<quantizer, converted, made, geo_vars, geo_rest_conv>>

NextQuantizer ==
    \/ \E a \in QuantizerArgs : Quantizer(a)
    \/ \E arg \in {"new", "held", "out"} : quantize(arg)
    \/ \E arg \in {"held", "out"} : dequantize(arg)

SpecQuantizer == InitGeometry /\ [][NextQuantizer]_vars

\* the calls k..k+3 of the trail are quantize, dequantize, quantize,
\* dequantize, each of the last three on what the call before it returned
RoundTrips(k) ==
    /\ trail[k].op = "quantize" /\ trail[k + 1].op = "dequantize"
    /\ trail[k + 2].op = "quantize" /\ trail[k + 3].op = "dequantize"
    /\ \A j \in (k + 1)..(k + 3) : trail[j].arg = "out"

\* C22 as claimed: with clip on, dequantize(quantize(dequantize(quantize(x))))
\* equals dequantize(quantize(x)) for every x, inside the ranges or outside,
\* the codes being int8.
C22_Original ==
    \A k \in 1..(Len(trail) - 3) :
        quantizer.clip /\ RoundTrips(k) => trail[k + 3].returned = trail[k + 1].returned

\* C27 as claimed: a quantize or dequantize call changes neither the array
\* passed to it nor a field of the Quantizer, and a second call on the same
\* array returns what the first returned, for every clip and center.
C27_Original ==
    [][Len(trail') > Len(trail) =>
          LET made_call == trail'[Len(trail')]
          IN  /\ quantizer' = quantizer
              /\ made_call.left = made_call.given
              /\ (trail # <<>> /\ made_call.arg = "held" /\ made_call.op = trail[Len(trail)].op)
                    => made_call.returned = trail[Len(trail)].returned]_vars

\* ---------------------------------------------------------------------------
\* Creating a file at a path that has one
\* ---------------------------------------------------------------------------

\* ConversionMixin.AXIS_TO_NAME
AXIS_TO_NAME == <<"projection_i", "projection_x", "projection_d">>

\* the dataset of convert for an axis: the slides of the axis in their
\* order, the axes ordered by AXIS_TO_ORDER
ProjectionOf(cube, axis) ==
    LET I == Len(vals(dataframe, 0))
        X == Len(vals(dataframe, 1))
    IN  IF axis = 0 THEN [y \in (1..I) \X (1..X) \X Samples |-> cube[y]]
        ELSE IF axis = 1
        THEN [y \in (1..X) \X (1..I) \X Samples |-> cube[<<y[2], y[1], y[3]>>]]
        ELSE [y \in Samples \X (1..I) \X (1..X) |-> cube[<<y[2], y[3], y[1]>>]]

\* what convert(format='hdf5', projections=...) writes: a dataset per
\* projection, then the group meta
ConvertWrites(df, projections) ==
    [name \in {AXIS_TO_NAME[a + 1] : a \in projections} \cup {"meta"} |->
        IF name = "meta" THEN <<>>
        ELSE ProjectionOf(Projections(df).cube,
                          CHOOSE a \in projections : AXIS_TO_NAME[a + 1] = name)]

\* ConversionMixin.convert with the default path, unquantized: the path is
\* the one of make_hdf5
convert(projections) ==
    /\ DOMAIN dataframe # {}
    /\ made.n < MaxCreations
    /\ LET exists == remove_if_exists(converted # <<>>)
           opened == h5py_File(exists, "w-")
       IN  /\ made' = [op |-> "convert", before |-> Before_(converted),
                       outcome |-> opened, n |-> made.n + 1]
           /\ converted' = IF opened = "ok" THEN <<ConvertWrites(dataframe, projections)>>
                           ELSE converted
    /\ UNCHANGED <<geo_vars, geo_rest_conv, quantizer, held, out, trail>>

\* Accumulator3D.__init__ and the create_placeholder calls of the subclass,
\* with the arguments and the path of the accumulator that exists
Accumulator3D ==
    /\ backing = "hdf5"
    /\ made.n < MaxCreations
    /\ last_op' = "__init__"
    /\ ret' = NoValue
    /\ \E opened \in {h5py_File(remove_if_exists(on_disk), "w-")} :
         /\ made' = [op |-> "Accumulator3D",
                     before |-> IF on_disk THEN <<placeholders>> ELSE <<>>,
                     outcome |-> opened, n |-> made.n + 1]
         /\ outcome' = opened
         /\ IF opened = "ok"
            THEN /\ data' = create_placeholder(shape, DataFill(policy, fill_value))
                 /\ counts' = create_placeholder(shape, 0)
                 /\ placeholders' = IF policy = "max" THEN {"data"} ELSE {"data", "counts"}
                 /\ aggregated' = FALSE
                 /\ file' = "w-"
                 /\ on_disk' = TRUE
                 /\ args' = NoArgs
                 /\ nupdates' = 0
                 /\ n_finalize' = 0
                 /\ cover' = [p \in PointsOf(shape) |-> 0]
                 /\ total' = [p \in PointsOf(shape) |-> 0]
                 /\ updated' = FALSE
                 /\ inbounds' = TRUE
                 /\ cleared' = FALSE
                 /\ log' = <<>>
            ELSE UNCHANGED <<data, counts, placeholders, aggregated, file, on_disk, args,
                             nupdates, n_finalize, cover, total, updated, inbounds,
                             cleared, log>>
    /\ UNCHANGED <<policy, backing, origin, shape, fill_value, limit, recording>>
    /\ UNCHANGED <<cache_vars, geo_vars, quantizer, held, out, trail, converted>>

\* sets of projections given to convert
ProjectionSets == {{0}, {0, 1, 2}}

InitCreate ==
    /\ AccConstruct("mean", "hdf5", AccOrigin, AccShape, NoFill, "none", 1)
    /\ CacheConstruct(MaxSize, TRUE, 0)

NextCreate ==
    \/ \E inp \in {CHOOSE i \in UpdateInputs : InBounds(i.location, origin, shape)} :
           update(inp.crop, inp.location)
    \/ aggregate
    \/ clear
    \/ Accumulator3D
    \/ process_segy("inline", {})
    \/ make_hdf5
    \/ \E projections \in ProjectionSets : convert(projections)

SpecCreate == InitCreate /\ [][NextCreate]_vars

C24_Original == \A inst \in Instances : Len(cache[inst]) <= maxsize

\* C25 as claimed: load_crop on the SEG-Y cube with no mode stacks slides
\* exactly when the extent of the location along the first or the second
\* axis is below the threshold, along the one of the two axes with the
\* smaller extent, and gathers the traces of the crop otherwise.
C25_Original ==
    loaded.op = "load_segy" /\ loaded.mode = "none" =>
        LET shp     == ShapeOf(loaded.locations)
            spatial == Min2(shp[1], shp[2])
        IN  IF spatial < Threshold
            THEN loaded.along # <<>> /\ shp[loaded.along[1] + 1] = spatial
            ELSE loaded.along = <<>>

\* ---------------------------------------------------------------------------
\* load_crop on HDF5 files with and without the projections cube_x, cube_h
\* ---------------------------------------------------------------------------

\* SeismicGeometry.process_hdf5 of a file converted earlier from the SEG-Y
\* file of all pairs, which holds the datasets `names`
process_hdf5(names) ==
    /\ DOMAIN dataframe = {}
    /\ DOMAIN file_hdf5 = {}
    /\ file_hdf5' = [n \in names |-> Projections(HeaderTable("inline", {}))[n]]
    /\ UNCHANGED <<dataframe, loaded, geo_rest>>

\* the axis arguments: none, the keys of the mapping, and 'd'
AxisNames == {<<>>, <<"d">>} \cup {<<k>> : k \in DOMAIN mapping}

NextAxis ==
    \/ \E names \in SUBSET {"cube_x", "cube_h"} : process_hdf5(names \cup {"cube"})
    \/ \E locations \in Locations, axis \in AxisNames : load_crop(locations, axis, "none")

SpecAxis == InitGeometry /\ [][NextAxis]_vars

\* the dataset whose leading axis is the axis a, cube if the file lacks it
Leading(a) ==
    IF a = 1 /\ "cube_x" \in DOMAIN file_hdf5 THEN "cube_x"
    ELSE IF a = 2 /\ "cube_h" \in DOMAIN file_hdf5 THEN "cube_h"
    ELSE "cube"

\* C26: load_crop on the HDF5 cube returns the crop without an error and
\* reads it from the dataset whose leading axis is, with no axis argument,
\* an axis of the least extent of the location, and with the argument 0, 1,
\* 2 or 'i', 'x', 'h', 'iline', 'xline', 'height', 'depth' the axis it
\* names, or from cube if the file has no dataset for that axis.
C26_Projection ==
    loaded.op = "load_hdf5" /\ loaded.axis # <<"d">> =>
        LET shp  == ShapeOf(loaded.locations)
            axes == IF loaded.axis = <<>>
                    THEN {a \in 0..2 : \A b \in 1..3 : shp[a + 1] <= shp[b]}
                    ELSE IF loaded.axis[1] \in {"0", "i", "iline"} THEN {0}
                    ELSE IF loaded.axis[1] \in {"1", "x", "xline"} THEN {1}
                    ELSE {2}
        IN  /\ loaded.crop.outcome = "ok"
            /\ loaded.dataset # <<>>
            /\ loaded.dataset[1] \in {Leading(a) : a \in axes}
            /\ loaded.crop.at =
                   [x \in Box(shp) |-> Projections(HeaderTable("inline", {})).cube[
                       <<loaded.locations[1][x[1]], loaded.locations[2][x[2]],
                         loaded.locations[3][x[3]]>>]]

\* a file with cube_h and without cube_x was asked for a crop along 'xline'
\* and read it from cube
C26_Witness ==
    /\ loaded.op = "load_hdf5"
    /\ "cube_h" \in DOMAIN file_hdf5
    /\ "cube_x" \notin DOMAIN file_hdf5
    /\ loaded.axis = <<"xline">>
    /\ loaded.dataset = <<"cube">>
    /\ ShapeOf(loaded.locations) = <<MaxLines, 1, MaxDepth>>
    /\ loaded.crop.outcome = "ok"

\* C28 as claimed: a hit returns a value that was computed for the arguments
\* of the call: calls of one instance whose arguments differ, be it only in
\* the nesting of a value in a list, have different keys.
C28_Original ==
    [][\A t \in Threads :
          (Hits(t) /\ cret'[t].outcome = "ok")
            => /\ cret'[t].value.value[1] = frame[t].inst
               /\ cret'[t].value.value[2] = frame[t].loc]_vars

\* ---------------------------------------------------------------------------
\* The wrapped function raises
\* ---------------------------------------------------------------------------

\* a wrapper that counts the miss before it runs the function
func_raises_counted(t) ==
    /\ pc[t] = "evaluate"
    /\ ncalls' = [ncalls EXCEPT ![frame[t].inst] = @ + 1]
    /\ stats' = [stats EXCEPT ![frame[t].inst].miss = @ + 1]
    /\ cret' = [cret EXCEPT ![t] = [outcome |-> "IndexError", value |-> NoValue]]
    /\ pc' = [pc EXCEPT ![t] = "idle"]
    /\ frame' = Disturbed([frame EXCEPT ![t] = NoFrame], t)
    /\ UNCHANGED <<cache, is_full, index, source, rpc, ncached, nenv>>
    /\ UNCHANGED <<acc_all, cache_opts, env_disable, lock, used>>

\* result = func(*args, **kwargs) raises (load_slide_segy: IndexError for a
\* slide number outside the axis): the exception leaves the wrapper
func_raises(t) ==
    /\ pc[t] = "evaluate"
    /\ ncalls' = [ncalls EXCEPT ![frame[t].inst] = @ + 1]
    /\ cret' = [cret EXCEPT ![t] = [outcome |-> "IndexError", value |-> NoValue]]
    /\ pc' = [pc EXCEPT ![t] = "idle"]
    /\ frame' = Disturbed([frame EXCEPT ![t] = NoFrame], t)
    /\ UNCHANGED <<cache, is_full, stats, index, source, rpc, ncached, nenv>>
    /\ UNCHANGED <<acc_all, cache_opts, env_disable, lock, used>>

NextRaise ==
    \/ \E t \in Threads, inst \in Instances, loc \in Locs : call(t, inst, loc, <<>>)
    \/ \E t \in Threads : lookup(t)
    \/ \E t \in Threads : evaluate(t)
    \/ \E t \in Threads : func_raises(t)
    \/ \E t \in Threads : insert(t)

SpecRaise == InitCache /\ [][NextRaise]_vars

\* thread t leaves the wrapper from the call of the function
RaisesIn(t) == pc[t] = "evaluate" /\ pc'[t] = "idle"

\* C29: when the function raises in a call that missed, the exception
\* reaches the caller and the lock is free; neither the lookup that missed
\* nor the raise changes a store, a full flag or a counter, and if no other
\* thread ran in between, the counters of the instance are those of the
\* start of the call and the key is still not stored.
C29_RaiseLeavesCache ==
    [][\A t \in Threads :
          /\ (pc[t] = "lookup" /\ pc'[t] = "evaluate")
                => cache' = cache /\ is_full' = is_full /\ stats' = stats /\ lock' # t
          /\ RaisesIn(t)
                => /\ cret'[t].outcome = "IndexError"
                   /\ cache' = cache /\ is_full' = is_full /\ stats' = stats
                   /\ lock' # t
                   /\ frame[t].solo
                        => /\ stats'[frame[t].inst].hit = frame[t].hit0
                           /\ stats'[frame[t].inst].miss = frame[t].miss0
                           /\ CacheGet(cache'[frame[t].inst], frame[t].key) = Singleton]_vars

\* after the function raised in a call of t1, a call of t2 with another
\* slide number has missed and stored its result
C29_Witness ==
    /\ cret["t1"].outcome = "IndexError"
    /\ cret["t2"].outcome = "ok"
    /\ pc["t2"] = "idle"
    /\ \E inst \in Instances :
          /\ Len(cache[inst]) = 1
          /\ stats[inst] = [hit |-> 0, miss |-> 1]
          /\ ncalls[inst] = 2

\* C30 as claimed: under the mean and the geometric-mean policy, until
\* aggregate the counts placeholder holds at every point the number of the
\* successful update calls whose location covers the point, however many
\* they are, 128 and more included.
C30_Original ==
    (policy \in {"mean", "gmean"} /\ ~aggregated)
        => \A p \in PointsOf(shape) : counts[p] = cover[p]

=============================================================================
